---- MODULE Spec2Model ----
(***************************************************************************)
(* CABAC context handling of the HEVC decoder (libavcodec/hevc_cabac.c):   *)
(* context initialisation (cabac_init_state), the WPP snapshot             *)
(* (ff_hevc_save_states / load_states) and the per-CTB entry point         *)
(* ff_hevc_cabac_init, driven by the CTB loop of the slice decoder.        *)
(***************************************************************************)
EXTENDS Integers, Sequences, FiniteSets, TLC

(* ------------------------------------------------------------------ *)
(* Bounds of the model                                                  *)
(* ------------------------------------------------------------------ *)
\* widest picture, in CTBs
MaxCtbWidth == 3
\* tallest picture, in CTB rows
MaxCtbHeight == 3
\* largest picture, in CTBs
MaxPicCtbs == 6
\* pictures decoded in one run
MaxPics == 2
\* slice segments in one picture
MaxSlices == 2
\* context-coded bins and Rice updates decoded in one run
MaxBins == 1
\* slice_qp is drawn from -QpSlack .. 51 + QpSlack when cabac_init_state is checked alone
QpSlack == 2
\* longest period of the bins of a 4x4 block, and of a larger block
MaxPeriod == 2
MaxPeriodBig == 1

\* longest run of bins before the cycle in the streams of the MVD and QP delta syntax
MaxSynHead == 5
\* packets the caller delivers in one run, and calls of v4l2_receive_frame
MaxPkts == 3
MaxCalls == 4
\* FF_V4L2_M2M_TRACK_SIZE, the slots of track_els, and the values of the unsigned
\* track_no (2^32 in the source)
FF_V4L2_M2M_TRACK_SIZE == 2
TrackNoLimit == 4

(* ------------------------------------------------------------------ *)
(* Program constants                                                    *)
(* ------------------------------------------------------------------ *)
HEVC_CONTEXTS == 188
B_SLICE == 0
P_SLICE == 1
I_SLICE == 2
SliceTypes == {B_SLICE, P_SLICE, I_SLICE}
\* (slice_type, cabac_init_flag, slice_qp) of the slice headers the CTB loop parses
SliceParams == { << I_SLICE, 0, 26 >>, << P_SLICE, 1, 40 >> }
\* contexts at which the CTB loop observes the two context tables: the first one, the
\* first significant_coeff_flag, the last one with an initializer and the last one.
\* memcpy, the loop of cabac_init_state and a bin's update all act on each byte of a
\* table independently of the other bytes; cabac_init_state itself is checked on all
\* HEVC_CONTEXTS contexts under SpecInit.
CtxSample == {0, 92, 177, 187}
\* context on which the CTB loop decodes bins (the first significant_coeff_flag)
BinCtxs == {92}
\* entries of stat_coeff and remainders the CTB loop feeds to update_rice
RiceIdxs == {0, 3}
RiceRems == {0, 3}

(* init_values[3][HEVC_CONTEXTS], CNU = 154; one row per init_type *)
init_values_0 ==
    <<
       153, 200, 139, 141, 157, 154, 154, 154, 154, 154, 154, 154, 154, 184, 154, 154,
       154, 184,  63, 139, 154, 154, 154, 154, 154, 154, 154, 154, 154, 154, 154, 154,
       154, 154, 154, 154, 154, 153, 138, 138, 111, 141,  94, 138, 182, 154, 139, 139,
       139, 139, 139, 139, 110, 110, 124, 125, 140, 153, 125, 127, 140, 109, 111, 143,
       127, 111,  79, 108, 123,  63, 110, 110, 124, 125, 140, 153, 125, 127, 140, 109,
       111, 143, 127, 111,  79, 108, 123,  63,  91, 171, 134, 141, 111, 111, 125, 110,
       110,  94, 124, 108, 124, 107, 125, 141, 179, 153, 125, 107, 125, 141, 179, 153,
       125, 107, 125, 141, 179, 153, 125, 140, 139, 182, 182, 152, 136, 152, 136, 153,
       136, 139, 111, 136, 139, 111, 141, 111, 140,  92, 137, 138, 140, 152, 138, 139,
       153,  74, 149,  92, 139, 107, 122, 152, 140, 179, 166, 182, 140, 227, 122, 197,
       138, 153, 136, 167, 152, 152, 154, 154, 154, 154, 154, 154, 154, 154, 154, 154,
       154, 154
    >>

init_values_1 ==
    <<
       153, 185, 107, 139, 126, 154, 197, 185, 201, 154, 154, 154, 149, 154, 139, 154,
       154, 154, 152, 139, 110, 122,  95,  79,  63,  31,  31, 153, 153, 153, 153, 140,
       198, 140, 198, 168,  79, 124, 138,  94, 153, 111, 149, 107, 167, 154, 139, 139,
       139, 139, 139, 139, 125, 110,  94, 110,  95,  79, 125, 111, 110,  78, 110, 111,
       111,  95,  94, 108, 123, 108, 125, 110,  94, 110,  95,  79, 125, 111, 110,  78,
       110, 111, 111,  95,  94, 108, 123, 108, 121, 140,  61, 154, 155, 154, 139, 153,
       139, 123, 123,  63, 153, 166, 183, 140, 136, 153, 154, 166, 183, 140, 136, 153,
       154, 166, 183, 140, 136, 153, 154, 170, 153, 123, 123, 107, 121, 107, 121, 167,
       151, 183, 140, 151, 183, 140, 140, 140, 154, 196, 196, 167, 154, 152, 167, 182,
       182, 134, 149, 136, 153, 121, 136, 137, 169, 194, 166, 167, 154, 167, 137, 182,
       107, 167,  91, 122, 107, 167, 154, 154, 154, 154, 154, 154, 154, 154, 154, 154,
       154, 154
    >>

init_values_2 ==
    <<
       153, 160, 107, 139, 126, 154, 197, 185, 201, 154, 154, 154, 134, 154, 139, 154,
       154, 183, 152, 139, 154, 137,  95,  79,  63,  31,  31, 153, 153, 153, 153, 169,
       198, 169, 198, 168,  79, 224, 167, 122, 153, 111, 149,  92, 167, 154, 139, 139,
       139, 139, 139, 139, 125, 110, 124, 110,  95,  94, 125, 111, 111,  79, 125, 126,
       111, 111,  79, 108, 123,  93, 125, 110, 124, 110,  95,  94, 125, 111, 111,  79,
       125, 126, 111, 111,  79, 108, 123,  93, 121, 140,  61, 154, 170, 154, 139, 153,
       139, 123, 123,  63, 124, 166, 183, 140, 136, 153, 154, 166, 183, 140, 136, 153,
       154, 166, 183, 140, 136, 153, 154, 170, 153, 138, 138, 122, 121, 122, 121, 167,
       151, 183, 140, 151, 183, 140, 140, 140, 154, 196, 167, 167, 154, 152, 167, 182,
       182, 134, 149, 136, 153, 121, 136, 122, 169, 208, 166, 167, 154, 152, 167, 182,
       107, 167,  91, 107, 107, 167, 154, 154, 154, 154, 154, 154, 154, 154, 154, 154,
       154, 154
    >>

init_values(init_type) ==
    CASE init_type = 0 -> init_values_0
      [] init_type = 1 -> init_values_1
      [] init_type = 2 -> init_values_2

\* initializers a row leaves out are zero
InitValue(init_type, i) ==
    IF i < Len(init_values(init_type)) THEN init_values(init_type)[i + 1] ELSE 0

(* transIdxLps of the H.265 state transition, indexed by pStateIdx *)
transIdxLps ==
    <<  0,  0,  1,  2,  2,  4,  4,  5,  6,  7,  8,  9,  9, 11, 11, 12,
       13, 13, 15, 15, 16, 16, 18, 18, 19, 19, 21, 21, 22, 22, 23, 24,
       24, 25, 26, 26, 27, 27, 28, 29, 29, 30, 30, 30, 31, 32, 32, 33,
       33, 33, 34, 34, 35, 35, 35, 36, 36, 36, 37, 37, 37, 38, 38, 63 >>

(* ------------------------------------------------------------------ *)
(* State                                                                *)
(* ------------------------------------------------------------------ *)
VARIABLES
    ctb_width,                          \* s->ps.sps->ctb_width
    ctb_height,                         \* s->ps.sps->ctb_height
    entropy_coding_sync_enabled_flag,   \* s->ps.pps->entropy_coding_sync_enabled_flag
    num_tile_columns,                   \* s->ps.pps->num_tile_columns
    num_tile_rows,                      \* s->ps.pps->num_tile_rows
    threads_number,                     \* s->threads_number
    ctb_addr_rs_to_ts,                  \* s->ps.pps->ctb_addr_rs_to_ts[]
    tile_id,                            \* s->ps.pps->tile_id[], indexed by ctb_addr_ts
    sh,                                 \* s->sh, the current slice segment header
    ctb_addr_ts,                        \* the CTB loop's ctb_addr_ts
    more_data,                          \* 0 once end_of_slice_segment_flag was decoded as 1
    pic,                                \* number of the picture being decoded
    pc,                                 \* position of the CTB loop
    lc_cabac_state,                     \* s->HEVClc->cabac_state, the working table
    cabac_state,                        \* s->cabac_state, the WPP snapshot
    stat_coeff,                         \* s->HEVClc->stat_coeff[0..3]
    init_type,                          \* the local init_type of the last cabac_init_state
    calls,                              \* the calls the last ff_hevc_cabac_init made, in order
    nbins,                              \* bins and Rice updates decoded so far
    nslices,                            \* slice segments of the picture so far
    save_fired,                         \* whether the last ff_hevc_save_states copied
    snap_pic,                           \* picture in which the snapshot was last written
    snap_ts,                            \* ctb_addr_ts given to the save that last wrote it
    snap_src,                           \* the working table as it was at that save
    dirty,                              \* a bin was decoded since that save
    bins,                               \* the bin values the arithmetic decoder yields, repeated
    bpos,                               \* position in bins of the next bin
    tu,                                 \* arguments and parameter-set fields of the block decoded
    rc,                                 \* locals of ff_hevc_hls_residual_coding
    coeffs,                             \* the coefficient buffer: the entries written (others 0)
    obs,                                \* what the last step of the block decoder did
    mvd,                                \* lc->pu.mvd and what ff_hevc_hls_mvd_coding read
    avctx,                              \* avctx->pkt_timebase and avctx->time_base
    m2m,                                \* the V4L2m2mContext: buf_pkt, track_no, track_els, ..
    io                                  \* packets fetched, sent and released; the last call

vars ==
    << ctb_width, ctb_height, entropy_coding_sync_enabled_flag, num_tile_columns,
       num_tile_rows, threads_number, ctb_addr_rs_to_ts, tile_id, sh, ctb_addr_ts, more_data, pic, pc,
       lc_cabac_state, cabac_state, stat_coeff, init_type, calls, nbins,
       nslices, save_fired, snap_pic, snap_ts, snap_src, dirty,
       bins, bpos, tu, rc, coeffs, obs, mvd, avctx, m2m, io >>

\* the state of the V4L2 decoder
v4l2vars == << avctx, m2m, io >>

\* the state of the CTB loop and of the context tables
ctbvars ==
    << ctb_width, ctb_height, entropy_coding_sync_enabled_flag, num_tile_columns,
       num_tile_rows, threads_number, ctb_addr_rs_to_ts, tile_id, sh, ctb_addr_ts, more_data, pic,
       lc_cabac_state, cabac_state, init_type, calls, nbins,
       nslices, save_fired, snap_pic, snap_ts, snap_src, dirty >>

\* the state of the block decoders
resvars == << bins, bpos, tu, rc, coeffs, obs, mvd >>

params ==
    << ctb_width, ctb_height, entropy_coding_sync_enabled_flag, num_tile_columns,
       num_tile_rows, threads_number, ctb_addr_rs_to_ts, tile_id >>

Ctxs == 0 .. HEVC_CONTEXTS - 1

\* a zero-filled table over the contexts D
ZeroTable(D) == [i \in D |-> 0]

ZeroStat == [i \in 0 .. 3 |-> 0]

\* no block is being decoded
NoBins == [ head |-> << >>, cyc |-> << 0 >> ]

NoTu == [ log2_trafo_size |-> 0 ]

NoRc == [ i |-> -1 ]

NoObs == [ step |-> "none" ]

NoMvd == [ x |-> 0, y |-> 0 ]

\* the V4L2 decoder is not run
V4l2Idle ==
    /\ avctx = << >>
    /\ m2m = << >>
    /\ io = << >>

ResIdle ==
    /\ bins = NoBins
    /\ bpos = 1
    /\ tu = NoTu
    /\ rc = NoRc
    /\ coeffs = << >>
    /\ obs = NoObs
    /\ mvd = NoMvd

(* ------------------------------------------------------------------ *)
(* Picture geometry: tiles in uniform spacing                           *)
(* ------------------------------------------------------------------ *)
ctb_size == ctb_width * ctb_height

tiles_enabled_flag == IF num_tile_columns * num_tile_rows > 1 THEN 1 ELSE 0

\* index of the tile column holding CTB column x of a picture w wide with nc tile
\* columns: column i starts at (i * w) / nc
TileCol(w, nc, x) ==
    Cardinality({i \in 1 .. nc - 1 : (i * w) \div nc <= x})

TileRow(h, nr, y) ==
    Cardinality({i \in 1 .. nr - 1 : (i * h) \div nr <= y})

TileOfRs(w, h, nc, nr, rs) == TileRow(h, nr, rs \div w) * nc + TileCol(w, nc, rs % w)

\* tile scan visits the tiles in raster order and each tile's CTBs in raster order
TsKey(w, h, nc, nr, rs) == TileOfRs(w, h, nc, nr, rs) * (w * h) + rs

RsToTs(w, h, nc, nr) ==
    [rs \in 0 .. w * h - 1 |->
        Cardinality({r \in 0 .. w * h - 1 : TsKey(w, h, nc, nr, r) < TsKey(w, h, nc, nr, rs)})]

ctb_addr_ts_to_rs(ts) ==
    CHOOSE rs \in 0 .. ctb_size - 1 : ctb_addr_rs_to_ts[rs] = ts

TileId(w, h, nc, nr) ==
    LET r2t == RsToTs(w, h, nc, nr)
    IN  [ts \in 0 .. w * h - 1 |->
            TileOfRs(w, h, nc, nr, CHOOSE rs \in 0 .. w * h - 1 : r2t[rs] = ts)]

(* ------------------------------------------------------------------ *)
(* cabac_init_state                                                     *)
(* ------------------------------------------------------------------ *)
av_clip(a, amin, amax) ==
    IF a < amin THEN amin ELSE IF a > amax THEN amax ELSE a

\* a >> k on a signed int: the arithmetic shift rounds towards minus infinity
Sar(a, k) == a \div (2 ^ k)

\* the fold written as an absolute value
XorSign_abs(pre) == IF pre < 0 THEN -pre ELSE pre

\* pre ^= pre >> 31: the mask is -1 for a negative pre (one's complement) and 0 otherwise
XorSign(pre) == IF pre < 0 THEN -pre - 1 ELSE pre

\* cabac_init_flag ignored
InitTypeOf_noflag(slice_type, cabac_init_flag) == 2 - slice_type

InitTypeOf(slice_type, cabac_init_flag) ==
    LET t == 2 - slice_type
    IN  IF cabac_init_flag # 0 /\ slice_type # I_SLICE
        THEN 3 - t      \* t ^= 3, t in 0..3
        ELSE t

\* the saturation to 124 + parity left out
CtxInitState_nosat(init_value, slice_qp) ==
    LET m   == Sar(init_value, 4) * 5 - 45
        n   == ((init_value % 16) * 8) - 16
        pre == 2 * (Sar(m * av_clip(slice_qp, 0, 51), 4) + n) - 127
    IN  XorSign(pre)

CtxInitState(init_value, slice_qp) ==
    LET m    == Sar(init_value, 4) * 5 - 45
        n    == ((init_value % 16) * 8) - 16
        pre  == 2 * (Sar(m * av_clip(slice_qp, 0, 51), 4) + n) - 127
        pre2 == XorSign(pre)
    IN  IF pre2 > 124 THEN 124 + (pre2 % 2) ELSE pre2

\* the working table (over the contexts D), stat_coeff and init_type after
\* cabac_init_state under header h
cabac_init_state(h, D) ==
    LET t == InitTypeOf(h.slice_type, h.cabac_init_flag)
    IN  [ tab  |-> [i \in D |-> CtxInitState(InitValue(t, i), h.slice_qp)],
          stat |-> ZeroStat,
          ity  |-> t ]

(* ------------------------------------------------------------------ *)
(* WPP snapshot                                                         *)
(* ------------------------------------------------------------------ *)
\* the ctb_width == 2 case left out
SaveCond_no_w2(sync, width, ts) == sync # 0 /\ ts % width = 2

\* the condition under which ff_hevc_save_states copies
SaveCond(sync, width, ts) ==
    sync # 0 /\ (ts % width = 2 \/ (width = 2 /\ ts % width = 0))

\* a save that copies after every CTB
ff_hevc_save_states_always(sync, width, ts, snapshot, working) == working

\* the snapshot after ff_hevc_save_states(s, ts)
ff_hevc_save_states(sync, width, ts, snapshot, working) ==
    IF SaveCond(sync, width, ts) THEN working ELSE snapshot

\* a load that copies nothing
load_states_stale(snapshot, working) == working

\* the working table after load_states
load_states(snapshot, working) == snapshot

(* ------------------------------------------------------------------ *)
(* ff_hevc_cabac_init                                                   *)
(* ------------------------------------------------------------------ *)
TileChange(ts) ==
    tiles_enabled_flag # 0 /\ tile_id[ts] # tile_id[ts - 1]

\* cabac_reinit on one thread, cabac_init_decoder otherwise
ReinitCall == IF threads_number = 1 THEN "cabac_reinit" ELSE "cabac_init_decoder"

\* the first CTB of a slice segment: WPP loads the snapshot for an independent
\* segment too
SliceStartCalls_loadall(ts) ==
    << "cabac_init_decoder" >>
    \o (IF sh.dependent_slice_segment_flag = 0 \/ TileChange(ts)
        THEN << "cabac_init_state" >> ELSE << >>)
    \o (IF sh.first_slice_in_pic_flag = 0 /\ entropy_coding_sync_enabled_flag # 0
           /\ ts % ctb_width = 0
        THEN IF ctb_width = 1 THEN << "cabac_init_state" >> ELSE << "load_states" >>
        ELSE << >>)

\* the first CTB of a slice segment: a dependent segment is never reinitialised at a
\* tile start
SliceStartCalls_notile(ts) ==
    << "cabac_init_decoder" >>
    \o (IF sh.dependent_slice_segment_flag = 0
        THEN << "cabac_init_state" >> ELSE << >>)
    \o (IF sh.first_slice_in_pic_flag = 0 /\ entropy_coding_sync_enabled_flag # 0
           /\ ts % ctb_width = 0
        THEN IF ctb_width = 1 THEN << "cabac_init_state" >>
             ELSE IF sh.dependent_slice_segment_flag = 1 THEN << "load_states" >>
             ELSE << >>
        ELSE << >>)

\* the branch taken at the first CTB of a slice segment
SliceStartCalls(ts) ==
    << "cabac_init_decoder" >>
    \o (IF sh.dependent_slice_segment_flag = 0 \/ TileChange(ts)
        THEN << "cabac_init_state" >> ELSE << >>)
    \o (IF sh.first_slice_in_pic_flag = 0 /\ entropy_coding_sync_enabled_flag # 0
           /\ ts % ctb_width = 0
        THEN IF ctb_width = 1 THEN << "cabac_init_state" >>
             ELSE IF sh.dependent_slice_segment_flag = 1 THEN << "load_states" >>
             ELSE << >>
        ELSE << >>)

\* a tile start that reads a terminate bin and always takes cabac_init_decoder
TileCalls_terminate(ts) ==
    IF TileChange(ts)
    THEN << "get_cabac_terminate", "cabac_init_decoder", "cabac_init_state" >>
    ELSE << >>

\* the tile part of the branch taken inside a slice segment
TileCalls(ts) ==
    IF TileChange(ts) THEN << ReinitCall, "cabac_init_state" >> ELSE << >>

\* the WPP part of the branch taken inside a slice segment
SyncCalls(ts) ==
    IF entropy_coding_sync_enabled_flag # 0 /\ ts % ctb_width = 0
    THEN << "get_cabac_terminate", ReinitCall,
            IF ctb_width = 1 THEN "cabac_init_state" ELSE "load_states" >>
    ELSE << >>

\* ts is the first CTB of the current slice segment
AtSliceStart(ts) == ts = ctb_addr_rs_to_ts[sh.slice_ctb_addr_rs]

CabacInitCalls(ts) ==
    IF AtSliceStart(ts)
    THEN SliceStartCalls(ts)
    ELSE TileCalls(ts) \o SyncCalls(ts)

\* a load_states that also puts stat_coeff back to its value at the row start
ExecCall_load_stat(c, st) ==
    CASE c = "cabac_init_state" -> cabac_init_state(sh, DOMAIN st.tab)
      [] c = "load_states"      -> [st EXCEPT !.tab = load_states(cabac_state, st.tab),
                                              !.stat = ZeroStat]
      [] OTHER                  -> st

\* the effect of one call on the local context (tab, stat, ity); the engine calls
\* (cabac_init_decoder, cabac_reinit, get_cabac_terminate) leave it alone
ExecCall(c, st) ==
    CASE c = "cabac_init_state" -> cabac_init_state(sh, DOMAIN st.tab)
      [] c = "load_states"      -> [st EXCEPT !.tab = load_states(cabac_state, st.tab)]
      [] OTHER                  -> st

RECURSIVE RunCalls(_, _)
RunCalls(cs, st) ==
    IF cs = << >> THEN st ELSE RunCalls(Tail(cs), ExecCall(Head(cs), st))

(* ------------------------------------------------------------------ *)
(* get_cabac and update_rice                                            *)
(* ------------------------------------------------------------------ *)
\* the context state after a bin: state = (pStateIdx << 1) | MPS
NextState(state, is_mps) ==
    LET p   == state \div 2
        mps == state % 2
    IN  IF is_mps = 1
        THEN (IF p < 62 THEN 2 * (p + 1) + mps ELSE state)
        ELSE (IF p = 0 THEN 1 - mps ELSE 2 * transIdxLps[p + 1] + mps)

\* the C fallback; *stat_coeff is a uint8_t
update_rice(stat, last_coeff_abs_level_remaining, c_rice_param) ==
    LET x == last_coeff_abs_level_remaining \div (2 ^ c_rice_param)
    IN  IF x >= 3 THEN (stat + 1) % 256
        ELSE IF x = 0 /\ stat > 0 THEN stat - 1
        ELSE stat

(* ------------------------------------------------------------------ *)
(* The CTB loop                                                         *)
(* ------------------------------------------------------------------ *)
NoHeader ==
    [ slice_type |-> I_SLICE, cabac_init_flag |-> 0, slice_qp |-> 26,
      dependent_slice_segment_flag |-> 0, first_slice_in_pic_flag |-> 1,
      slice_ctb_addr_rs |-> 0 ]

\* a CTB is being decoded: one CTB wide, no WPP, no tiles, contexts not observed
CtbIdle ==
    /\ ctb_width = 1
    /\ ctb_height = 1
    /\ entropy_coding_sync_enabled_flag = 0
    /\ num_tile_columns = 1
    /\ num_tile_rows = 1
    /\ threads_number = 1
    /\ ctb_addr_rs_to_ts = RsToTs(1, 1, 1, 1)
    /\ tile_id = TileId(1, 1, 1, 1)
    /\ sh = NoHeader
    /\ ctb_addr_ts = 0
    /\ more_data = 1
    /\ pic = 1
    /\ lc_cabac_state = ZeroTable({})
    /\ cabac_state = ZeroTable({})
    /\ init_type = -1
    /\ calls = << >>
    /\ nbins = 0
    /\ nslices = 1
    /\ save_fired = FALSE
    /\ snap_pic = 0
    /\ snap_ts = 0
    /\ snap_src = ZeroTable({})
    /\ dirty = FALSE

Init ==
    /\ ctb_width \in 1 .. MaxCtbWidth
    /\ ctb_height \in 1 .. MaxCtbHeight
    /\ entropy_coding_sync_enabled_flag \in {0, 1}
    /\ num_tile_columns \in {1, 2}
    /\ num_tile_rows \in {1, 2}
    /\ num_tile_columns <= ctb_width
    /\ num_tile_rows <= ctb_height
    /\ ctb_width * ctb_height <= MaxPicCtbs
    /\ threads_number \in {1, 2}
    /\ ctb_addr_rs_to_ts = RsToTs(ctb_width, ctb_height, num_tile_columns, num_tile_rows)
    /\ tile_id = TileId(ctb_width, ctb_height, num_tile_columns, num_tile_rows)
    /\ sh = NoHeader
    /\ ctb_addr_ts = 0
    /\ more_data = 1
    /\ pic = 1
    /\ pc = "header"
    /\ lc_cabac_state = ZeroTable(CtxSample)
    /\ cabac_state = ZeroTable(CtxSample)
    /\ stat_coeff = ZeroStat
    /\ init_type = -1
    /\ calls = << >>
    /\ nbins = 0
    /\ nslices = 0
    /\ save_fired = FALSE
    /\ snap_pic = 0
    /\ snap_ts = 0
    /\ snap_src = ZeroTable(CtxSample)
    /\ dirty = FALSE
    /\ ResIdle
    /\ V4l2Idle

\* a slice segment header is parsed for the segment that starts at ctb_addr_ts; a
\* dependent segment keeps the slice fields of the segment before it
hls_slice_header ==
    /\ pc = "header"
    /\ \E dep \in (IF ctb_addr_ts = 0 THEN {0} ELSE {0, 1}) :
       \E p \in (IF dep = 1 THEN {<< sh.slice_type, sh.cabac_init_flag, sh.slice_qp >>}
                           ELSE SliceParams) :
          sh' = [ slice_type |-> p[1],
                  cabac_init_flag |-> p[2],
                  slice_qp |-> p[3],
                  dependent_slice_segment_flag |-> dep,
                  first_slice_in_pic_flag |-> IF ctb_addr_ts = 0 THEN 1 ELSE 0,
                  slice_ctb_addr_rs |-> ctb_addr_ts_to_rs(ctb_addr_ts) ]
    /\ more_data' = 1
    /\ nslices' = (IF ctb_addr_ts = 0 THEN 1 ELSE nslices + 1)
    /\ pc' = "init"
    /\ UNCHANGED << v4l2vars, resvars, params, ctb_addr_ts, pic, lc_cabac_state, cabac_state, stat_coeff,
                    init_type, calls, nbins, save_fired, snap_pic, snap_ts, snap_src,
                    dirty >>

ff_hevc_cabac_init ==
    /\ pc = "init"
    /\ LET cs == CabacInitCalls(ctb_addr_ts)
           st == RunCalls(cs, [tab |-> lc_cabac_state, stat |-> stat_coeff, ity |-> init_type])
       IN  /\ calls' = cs
           /\ lc_cabac_state' = st.tab
           /\ stat_coeff' = st.stat
           /\ init_type' = st.ity
    /\ pc' = "inited"
    /\ UNCHANGED << v4l2vars, resvars, params, sh, ctb_addr_ts, more_data, pic, cabac_state, nbins, nslices,
                    save_fired, snap_pic, snap_ts, snap_src, dirty >>

\* one context-coded bin of the CTB: GET_CABAC(ctx)
get_cabac ==
    /\ pc \in {"inited", "decode"}
    /\ pc' = "decode"
    /\ nbins < MaxBins
    /\ \E ctx \in BinCtxs, is_mps \in {0, 1} :
          lc_cabac_state' =
              [lc_cabac_state EXCEPT ![ctx] = NextState(lc_cabac_state[ctx], is_mps)]
    /\ nbins' = nbins + 1
    /\ dirty' = TRUE
    /\ UNCHANGED << v4l2vars, resvars, params, sh, ctb_addr_ts, more_data, pic, cabac_state, stat_coeff,
                    init_type, calls, nslices, save_fired, snap_pic, snap_ts, snap_src >>

\* the first remainder of a subblock under persistent Rice adaptation
rice_update ==
    /\ pc \in {"inited", "decode"}
    /\ pc' = "decode"
    /\ nbins < MaxBins
    /\ \E idx \in RiceIdxs, r \in RiceRems :
          stat_coeff' =
              [stat_coeff EXCEPT ![idx] = update_rice(stat_coeff[idx], r, stat_coeff[idx] \div 4)]
    /\ nbins' = nbins + 1
    /\ UNCHANGED << v4l2vars, resvars, params, sh, ctb_addr_ts, more_data, pic, lc_cabac_state,
                    cabac_state, init_type, calls, nslices, save_fired, snap_pic, snap_ts,
                    snap_src, dirty >>

\* the end of the loop body: the CTB is decoded and end_of_slice_segment_flag read
\* (more_data), ctb_addr_ts++, ff_hevc_save_states(s, ctb_addr_ts), then the loop test
hls_decode_entry ==
    /\ pc \in {"inited", "decode"}
    /\ \E md \in (IF ctb_addr_ts + 1 = ctb_size THEN {0}
                  ELSE IF nslices < MaxSlices THEN {0, 1} ELSE {1}) :
       LET ts == ctb_addr_ts + 1
       IN  /\ more_data' = md
           /\ cabac_state' = ff_hevc_save_states(entropy_coding_sync_enabled_flag, ctb_width,
                                                 ts, cabac_state, lc_cabac_state)
           /\ save_fired' = SaveCond(entropy_coding_sync_enabled_flag, ctb_width, ts)
           /\ IF save_fired'
              THEN /\ snap_pic' = pic
                   /\ snap_ts' = ts
                   /\ snap_src' = lc_cabac_state
                   /\ dirty' = FALSE
              ELSE UNCHANGED << snap_pic, snap_ts, snap_src, dirty >>
           /\ IF ts < ctb_size
              THEN /\ pc' = (IF md = 1 THEN "init" ELSE "header")
                   /\ ctb_addr_ts' = ts
                   /\ pic' = pic
              ELSE IF pic < MaxPics
              THEN pc' = "header" /\ ctb_addr_ts' = 0 /\ pic' = pic + 1
              ELSE pc' = "done" /\ ctb_addr_ts' = ts /\ pic' = pic
    /\ UNCHANGED << v4l2vars, resvars, params, sh, lc_cabac_state, stat_coeff, init_type, calls, nbins,
                    nslices >>

Next ==
    \/ hls_slice_header
    \/ ff_hevc_cabac_init
    \/ get_cabac
    \/ rice_update
    \/ hls_decode_entry

Spec == Init /\ [][Next]_vars

(* ------------------------------------------------------------------ *)
(* cabac_init_state, the snapshot copy and bins on the whole table      *)
(* ------------------------------------------------------------------ *)
\* one row of MaxCtbWidth CTBs with WPP on; any slice type, cabac_init_flag and
\* slice_qp (in and out of 0..51); a working table and stat_coeff that are not clean
InitI ==
    /\ ctb_width = MaxCtbWidth
    /\ ctb_height = 1
    /\ entropy_coding_sync_enabled_flag = 1
    /\ num_tile_columns = 1
    /\ num_tile_rows = 1
    /\ threads_number = 1
    /\ ctb_addr_rs_to_ts = RsToTs(ctb_width, ctb_height, num_tile_columns, num_tile_rows)
    /\ tile_id = TileId(ctb_width, ctb_height, num_tile_columns, num_tile_rows)
    /\ \E st \in SliceTypes, cif \in {0, 1}, qp \in (0 - QpSlack) .. (51 + QpSlack) :
          sh = [ slice_type |-> st, cabac_init_flag |-> cif, slice_qp |-> qp,
                 dependent_slice_segment_flag |-> 0, first_slice_in_pic_flag |-> 1,
                 slice_ctb_addr_rs |-> 0 ]
    /\ ctb_addr_ts = 0
    /\ more_data = 1
    /\ pic = 1
    /\ pc = "init"
    /\ lc_cabac_state = ZeroTable(Ctxs)
    /\ cabac_state = ZeroTable(Ctxs)
    /\ stat_coeff \in {ZeroStat, [i \in 0 .. 3 |-> i + 1]}
    /\ init_type = -1
    /\ calls = << >>
    /\ nbins = 0
    /\ nslices = 1
    /\ save_fired = FALSE
    /\ snap_pic = 0
    /\ snap_ts = 0
    /\ snap_src = ZeroTable(Ctxs)
    /\ dirty = FALSE
    /\ ResIdle
    /\ V4l2Idle

\* cabac_init_state(s) called on its own
cabac_init_state_call ==
    /\ pc = "init"
    /\ LET st == cabac_init_state(sh, DOMAIN lc_cabac_state)
       IN  /\ lc_cabac_state' = st.tab
           /\ stat_coeff' = st.stat
           /\ init_type' = st.ity
    /\ calls' = << "cabac_init_state" >>
    /\ pc' = "inited"
    /\ UNCHANGED << v4l2vars, resvars, params, sh, ctb_addr_ts, more_data, pic, cabac_state, nbins, nslices,
                    save_fired, snap_pic, snap_ts, snap_src, dirty >>

\* ff_hevc_save_states(s, ts) called for any ts of the row
save_states_call ==
    /\ pc \in {"inited", "decode"}
    /\ \E ts \in 1 .. ctb_size :
          /\ cabac_state' = ff_hevc_save_states(entropy_coding_sync_enabled_flag, ctb_width,
                                                ts, cabac_state, lc_cabac_state)
          /\ save_fired' = SaveCond(entropy_coding_sync_enabled_flag, ctb_width, ts)
    /\ pc' = "decode"
    /\ UNCHANGED << v4l2vars, resvars, params, sh, ctb_addr_ts, more_data, pic, lc_cabac_state, stat_coeff,
                    init_type, calls, nbins, nslices, snap_pic, snap_ts, snap_src, dirty >>

\* load_states(s) called on its own
load_states_call ==
    /\ pc \in {"inited", "decode"}
    /\ lc_cabac_state' = load_states(cabac_state, lc_cabac_state)
    /\ calls' = << "load_states" >>
    /\ pc' = "decode"
    /\ UNCHANGED << v4l2vars, resvars, params, sh, ctb_addr_ts, more_data, pic, cabac_state, stat_coeff,
                    init_type, nbins, nslices, save_fired, snap_pic, snap_ts, snap_src,
                    dirty >>

NextI ==
    \/ cabac_init_state_call
    \/ get_cabac
    \/ save_states_call
    \/ load_states_call

SpecInit == InitI /\ [][NextI]_vars

(* ------------------------------------------------------------------ *)
(* The block decoders: bins, 32-bit arithmetic, dequantisation           *)
(* ------------------------------------------------------------------ *)
CABAC_MAX_BIN == 31
SCAN_DIAG == 0
SCAN_HORIZ == 1
SCAN_VERT == 2
MODE_INTER == 0
MODE_INTRA == 1
INT_MAX == 2147483647
INT_MIN == -INT_MAX - 1

\* the position q of the stream bins.head followed by bins.cyc for ever, as a position
\* of the head or of the first copy of the cycle
Fold(q) ==
    IF q <= Len(bins.head) THEN q
    ELSE Len(bins.head) + ((q - Len(bins.head) - 1) % Len(bins.cyc)) + 1

\* the k-th bin from the read position on (k = 0 is the next bin)
Bin(k) ==
    LET q == Fold(bpos + k)
    IN  IF q <= Len(bins.head) THEN bins.head[q] ELSE bins.cyc[q - Len(bins.head)]

\* the read position after n more bins
Skip(n) == Fold(bpos + n)

\* the number of 1 bins in a row from the k-th bin on, counted up to max
RECURSIVE Ones(_, _)
Ones(k, max) == IF max = 0 \/ Bin(k) = 0 THEN 0 ELSE 1 + Ones(k + 1, max - 1)

\* the n bins from the k-th on read as a number, first bin most significant
RECURSIVE BinsValue(_, _)
BinsValue(k, n) == IF n = 0 THEN 0 ELSE 2 * BinsValue(k, n - 1) + Bin(k + n - 1)

level_scale == << 40, 45, 51, 57, 64, 72 >>

qp_c == << 29, 30, 31, 32, 33, 33, 34, 34, 35, 35, 36, 36, 37, 37 >>

\* rem6[] read as div6[]
rem6_quotient(qp) == IF qp < 74 THEN qp \div 6 ELSE 0

\* rem6[] and div6[]: 76 entries each, of which the first 74 have an initialiser
rem6(qp) == IF qp < 74 THEN qp % 6 ELSE 0

div6(qp) == IF qp < 74 THEN qp \div 6 ELSE 0

qp_bd_offset(t) == 6 * (t.bit_depth - 8)

\* the qp of the dequantiser
DequantQp(t) ==
    IF t.c_idx = 0
    THEN t.qp_y + qp_bd_offset(t)
    ELSE LET qp_i == av_clip(t.qp_y + t.qp_offset, 0 - qp_bd_offset(t), 57)
             qp == IF t.chroma_format_idc = 1
                   THEN IF qp_i < 30 THEN qp_i
                        ELSE IF qp_i > 43 THEN qp_i - 6
                        ELSE qp_c[qp_i - 30 + 1]
                   ELSE IF qp_i > 51 THEN 51 ELSE qp_i
         IN  qp + qp_bd_offset(t)

\* shift, scale, dc_scale and the scaling factor of the other positions
ScaleOf_bypass_dequant(t, trans_skip_or_bypass) ==
    LET qp == DequantQp(t)
        shift0 == t.bit_depth + t.log2_trafo_size - 6
        big == div6(qp) >= shift0
    IN  [ shift |-> IF big THEN 0 ELSE shift0 - div6(qp),
          scale |-> level_scale[rem6(qp) + 1] * (IF big THEN 2 ^ (div6(qp) - shift0) ELSE 1),
          dc_scale |-> 16, scale_matrix |-> 16 ]

ScaleOf(t, trans_skip_or_bypass) ==
    IF t.cu_transquant_bypass_flag = 0
    THEN LET qp == DequantQp(t)
             shift0 == t.bit_depth + t.log2_trafo_size - 6
             scale0 == level_scale[rem6(qp) + 1]
             big == div6(qp) >= shift0
             lists == t.scaling_list_enable_flag = 1
                      /\ ~(trans_skip_or_bypass = 1 /\ t.log2_trafo_size > 2)
         IN  [ shift |-> IF big THEN 0 ELSE shift0 - div6(qp),
               scale |-> IF big THEN scale0 * 2 ^ (div6(qp) - shift0) ELSE scale0,
               dc_scale |-> IF lists
                            THEN (IF t.log2_trafo_size >= 4 THEN t.sl_dc ELSE t.sl)
                            ELSE 16,
               scale_matrix |-> IF lists THEN t.sl ELSE 16 ]
    ELSE [ shift |-> 0, scale |-> 2, dc_scale |-> 1, scale_matrix |-> 1 ]

\* a * b mod 2^16 and (a * b) / 2^16 for a, b below 2^16
MulLo16(a, b) == ((a % 256) * b + (((a \div 256) * b) % 256) * 256) % 65536

MulHi16(a, b) == ((a \div 256) * b + ((a % 256) * b) \div 256) \div 256

\* the two's-complement product of an int and a factor below 2^31, as an int
Mul32(level, m) ==
    LET n == IF level >= 0 THEN level ELSE -(level + 1)
        ah == IF level >= 0 THEN n \div 65536 ELSE 65535 - (n \div 65536)
        al == IF level >= 0 THEN n % 65536 ELSE 65535 - (n % 65536)
        mh == m \div 65536
        ml == m % 65536
        lo == MulLo16(al, ml)
        hi == (MulHi16(al, ml) + MulLo16(ah, ml) + MulLo16(al, mh)) % 65536
    IN  IF hi >= 32768 THEN -((65535 - hi) * 65536 + (65535 - lo)) - 1
        ELSE hi * 65536 + lo

\* level * m is an int
MulFits(level, m) ==
    \/ m = 0
    \/ level >= 0 /\ level <= INT_MAX \div m
    \/ level < 0 /\ -level - 1 <= (INT_MAX - m + 1) \div m

sat16(v) == IF v < -32768 THEN -32768 ELSE IF v > 32767 THEN 32767 ELSE v

\* the value of signed arithmetic that overflows: what a wrapping multiply and add
\* give (ub[1] = 0, the ARM build), or any int (ub = << 1, value >>)
UBOutcomes == { << 0, 0 >>, << 1, INT_MIN >>, << 1, INT_MAX >> }

trans_scale_sat(level, scale, scale_m, shift, ub) ==
    LET m == scale * scale_m
        fits == MulFits(level, m)
        p == IF fits THEN level * m ELSE Mul32(level, m)
        s == Sar(p, shift)
        defined == fits /\ s < INT_MAX
        wrapped == IF s = INT_MAX THEN Sar(INT_MIN, 1) ELSE Sar(s + 1, 1)
        trans_coeff_level == IF defined \/ ub[1] = 0 THEN wrapped ELSE ub[2]
    IN  sat16(trans_coeff_level)

(* ------------------------------------------------------------------ *)
(* ff_hevc_hls_residual_coding: entry and dequantiser set-up            *)
(* ------------------------------------------------------------------ *)
BaseTu ==
    [ log2_trafo_size |-> 2, scan_idx |-> SCAN_DIAG, c_idx |-> 0,
      cu_transquant_bypass_flag |-> 0, pred_mode |-> MODE_INTRA, pred_mode_intra |-> 0,
      qp_y |-> 26, bit_depth |-> 8, qp_offset |-> 0, chroma_format_idc |-> 1,
      transform_skip_enabled_flag |-> 0, log2_max_transform_skip_block_size |-> 2,
      transform_skip_context_enabled_flag |-> 0,
      scaling_list_enable_flag |-> 0, sl |-> 16, sl_dc |-> 16,
      explicit_rdpcm_enabled_flag |-> 0, implicit_rdpcm_enabled_flag |-> 0,
      sign_data_hiding_flag |-> 0, persistent_rice_adaptation_enabled_flag |-> 0,
      transform_skip_rotation_enabled_flag |-> 0, cross_pf |-> 0, bypeek22 |-> 0 ]

\* the record r with the fields of the record d replaced
With(r, d) == [f \in DOMAIN r |-> IF f \in DOMAIN d THEN d[f] ELSE r[f]]

\* transform_skip_flag is decoded
TsCoded(t) ==
    /\ t.cu_transquant_bypass_flag = 0
    /\ t.transform_skip_enabled_flag = 1
    /\ t.log2_trafo_size <= t.log2_max_transform_skip_block_size

\* from the entry to the decoding of the last position: memset of coeffs, the
\* transform_skip_flag bin, qp, shift and scale, the explicit rdpcm bins
residual_begin ==
    /\ pc = "res_entry"
    /\ LET n0 == IF TsCoded(tu) THEN 1 ELSE 0
           transform_skip_flag == IF TsCoded(tu) THEN Bin(0) ELSE 0
           tsb == IF tu.cu_transquant_bypass_flag = 1 \/ transform_skip_flag = 1 THEN 1 ELSE 0
           sc == ScaleOf(tu, tsb)
           rdpcm == tu.pred_mode = MODE_INTER /\ tu.explicit_rdpcm_enabled_flag = 1 /\ tsb = 1
           explicit_rdpcm_flag == IF rdpcm THEN Bin(n0) ELSE 0
           n1 == n0 + (IF rdpcm THEN 1 ELSE 0)
           explicit_rdpcm_dir_flag == IF explicit_rdpcm_flag = 1 THEN Bin(n1) ELSE 0
           n2 == n1 + explicit_rdpcm_flag
       IN  /\ rc' = [ trans_skip_or_bypass |-> tsb,
                      shift |-> sc.shift, scale |-> sc.scale, dc_scale |-> sc.dc_scale,
                      scale_matrix |-> sc.scale_matrix,
                      explicit_rdpcm_flag |-> explicit_rdpcm_flag,
                      explicit_rdpcm_dir_flag |-> explicit_rdpcm_dir_flag,
                      last_significant_coeff_x |-> 0, last_significant_coeff_y |-> 0,
                      num_coeff |-> 0, num_last_subset |-> 0, i |-> 0,
                      prev_subset_coded |-> 0, significant_coeff_group_flag |-> {},
                      err |-> FALSE, ub |-> << >> ]
           /\ bpos' = Skip(n2)
           /\ obs' = [ step |-> "begin", nbins |-> n2 ]
    /\ coeffs' = << >>
    /\ pc' = "res_last"
    /\ UNCHANGED << v4l2vars, ctbvars, stat_coeff, bins, tu, mvd >>

\* the value of a buffer entry
Coeff(c, t_offset) == IF t_offset \in DOMAIN c THEN c[t_offset] ELSE 0

(* ------------------------------------------------------------------ *)
(* The dequantiser on its own: any level at the DC or another position  *)
(* ------------------------------------------------------------------ *)
ScaleLevels ==
    { 1, 2, 3, 255, 32767, 32768, 262147, -1, -2, -3, -255, -32767, -32768, -262147 }

ScaleTus ==
    { With(BaseTu, [ log2_trafo_size |-> l, c_idx |-> c, qp_y |-> q, bit_depth |-> bd,
                     cu_transquant_bypass_flag |-> byp, scaling_list_enable_flag |-> sle,
                     sl |-> m, sl_dc |-> m, qp_offset |-> 2 ]) :
        l \in 2 .. 5, c \in {0, 1}, q \in {0, 4, 26, 30, 45, 51}, bd \in {8, 10},
        byp \in {0, 1}, sle \in {0, 1}, m \in {1, 255} }

InitScale ==
    /\ CtbIdle
    /\ V4l2Idle
    /\ stat_coeff = ZeroStat
    /\ pc = "res_entry"
    /\ bins = NoBins
    /\ bpos = 1
    /\ tu \in ScaleTus
    /\ rc = NoRc
    /\ coeffs = << >>
    /\ obs = NoObs
    /\ mvd = NoMvd

\* the store of one coefficient: coeffs[t_offset] = trans_scale_sat(...), with
\* scale_m = dc_scale at t_offset 0 and the scaling factor elsewhere
store_coeff ==
    /\ pc = "res_last"
    /\ \E trans_coeff_level \in ScaleLevels, t_offset \in {0, 1}, ub \in UBOutcomes :
          LET scale_m == IF t_offset # 0 THEN rc.scale_matrix ELSE rc.dc_scale
              v == trans_scale_sat(trans_coeff_level, rc.scale, scale_m, rc.shift, ub)
          IN  /\ coeffs' = (t_offset :> v) @@ coeffs
              /\ obs' = [ step |-> "store", level |-> trans_coeff_level,
                          scale_m |-> scale_m, t_offset |-> t_offset ]
    /\ pc' = "res_stored"
    /\ UNCHANGED << v4l2vars, ctbvars, stat_coeff, bins, bpos, tu, rc, mvd >>

NextScale ==
    \/ residual_begin
    \/ store_coeff

SpecScale == InitScale /\ [][NextScale]_vars
(* ------------------------------------------------------------------ *)
(* Scan tables (0-based functions, as in the source)                    *)
(* ------------------------------------------------------------------ *)
\* the function on 0 .. Len(s) - 1 of the initialiser list s
Tab(s) == [k \in 0 .. Len(s) - 1 |-> s[k + 1]]

\* the function on rows and columns of the initialiser lists of a 2-D table
Tab2(s) == [y \in 0 .. Len(s) - 1 |-> Tab(s[y + 1])]

scan_1x1 == Tab(<< 0 >>)

horiz_scan2x2_x == Tab(<< 0, 1, 0, 1 >>)

horiz_scan2x2_y == Tab(<< 0, 0, 1, 1 >>)

horiz_scan4x4_x == Tab(<< 0, 1, 2, 3, 0, 1, 2, 3, 0, 1, 2, 3, 0, 1, 2, 3 >>)

horiz_scan4x4_y == Tab(<< 0, 0, 0, 0, 1, 1, 1, 1, 2, 2, 2, 2, 3, 3, 3, 3 >>)

horiz_scan8x8_inv ==
    Tab2(<< <<  0,  1,  2,  3, 16, 17, 18, 19 >>,
            <<  4,  5,  6,  7, 20, 21, 22, 23 >>,
            <<  8,  9, 10, 11, 24, 25, 26, 27 >>,
            << 12, 13, 14, 15, 28, 29, 30, 31 >>,
            << 32, 33, 34, 35, 48, 49, 50, 51 >>,
            << 36, 37, 38, 39, 52, 53, 54, 55 >>,
            << 40, 41, 42, 43, 56, 57, 58, 59 >>,
            << 44, 45, 46, 47, 60, 61, 62, 63 >> >>)

diag_scan2x2_x == Tab(<< 0, 0, 1, 1 >>)

diag_scan2x2_y == Tab(<< 0, 1, 0, 1 >>)

diag_scan2x2_inv == Tab2(<< << 0, 2 >>, << 1, 3 >> >>)

diag_scan4x4_inv ==
    Tab2(<< << 0,  2,  5,  9 >>,
            << 1,  4,  8, 12 >>,
            << 3,  7, 11, 14 >>,
            << 6, 10, 13, 15 >> >>)

diag_scan8x8_inv ==
    Tab2(<< <<  0,  2,  5,  9, 14, 20, 27, 35 >>,
            <<  1,  4,  8, 13, 19, 26, 34, 42 >>,
            <<  3,  7, 12, 18, 25, 33, 41, 48 >>,
            <<  6, 11, 17, 24, 32, 40, 47, 53 >>,
            << 10, 16, 23, 31, 39, 46, 52, 57 >>,
            << 15, 22, 30, 38, 45, 51, 56, 60 >>,
            << 21, 29, 37, 44, 50, 55, 59, 62 >>,
            << 28, 36, 43, 49, 54, 58, 61, 63 >> >>)

\* the x and y of scan position k under the inverse table inv[y][x]
ScanX(inv, k) == CHOOSE x \in DOMAIN inv[0] : \E y \in DOMAIN inv : inv[y][x] = k

ScanY(inv, k) == CHOOSE y \in DOMAIN inv : \E x \in DOMAIN inv[0] : inv[y][x] = k

ff_hevc_diag_scan4x4_x == [k \in 0 .. 15 |-> ScanX(diag_scan4x4_inv, k)]

ff_hevc_diag_scan4x4_y == [k \in 0 .. 15 |-> ScanY(diag_scan4x4_inv, k)]

ff_hevc_diag_scan8x8_x == [k \in 0 .. 63 |-> ScanX(diag_scan8x8_inv, k)]

ff_hevc_diag_scan8x8_y == [k \in 0 .. 63 |-> ScanY(diag_scan8x8_inv, k)]

\* scan_x_cg, scan_y_cg, scan_x_off, scan_y_off of the switch on scan_idx
ScanTables(scan_idx, trafo_size) ==
    IF scan_idx = SCAN_DIAG
    THEN [ x_off |-> ff_hevc_diag_scan4x4_x, y_off |-> ff_hevc_diag_scan4x4_y,
           x_cg |-> IF trafo_size = 4 THEN scan_1x1
                    ELSE IF trafo_size = 8 THEN diag_scan2x2_x
                    ELSE IF trafo_size = 16 THEN ff_hevc_diag_scan4x4_x
                    ELSE ff_hevc_diag_scan8x8_x,
           y_cg |-> IF trafo_size = 4 THEN scan_1x1
                    ELSE IF trafo_size = 8 THEN diag_scan2x2_y
                    ELSE IF trafo_size = 16 THEN ff_hevc_diag_scan4x4_y
                    ELSE ff_hevc_diag_scan8x8_y ]
    ELSE IF scan_idx = SCAN_HORIZ
    THEN [ x_cg |-> horiz_scan2x2_x, y_cg |-> horiz_scan2x2_y,
           x_off |-> horiz_scan4x4_x, y_off |-> horiz_scan4x4_y ]
    ELSE [ x_cg |-> horiz_scan2x2_y, y_cg |-> horiz_scan2x2_x,
           x_off |-> horiz_scan4x4_y, y_off |-> horiz_scan4x4_x ]

\* the scan position inside the 4x4 subblock alone
LastScanPos_in_subblock(scan_idx, trafo_size, x, y) == diag_scan4x4_inv[y % 4][x % 4]

\* the lookup of the last position indexes inside the declared bounds of its table:
\* the diagonal tables are indexed by x & 3, y & 3 and by the subblock of the block
\* size; horiz_scan8x8_inv[8][8] is indexed by the last position itself
LastScanInBounds(scan_idx, trafo_size, x, y) ==
    scan_idx = SCAN_DIAG \/ (x \in 0 .. 7 /\ y \in 0 .. 7)

\* what a read outside a table of uint8_t gives: any byte
OobBytes == { 0, 255 }

\* the entries of the tables scan_x_cg and scan_y_cg point to
ScanCgLen(scan_idx, trafo_size) ==
    IF scan_idx = SCAN_DIAG THEN (trafo_size \div 4) * (trafo_size \div 4) ELSE 4

\* num_coeff before the increment: the scan position of the last position
LastScanPos(scan_idx, trafo_size, x, y) ==
    IF scan_idx = SCAN_DIAG
    THEN diag_scan4x4_inv[y % 4][x % 4]
         + (IF trafo_size = 4 THEN 0
            ELSE IF trafo_size = 8 THEN diag_scan2x2_inv[y \div 4][x \div 4] * 16
            ELSE IF trafo_size = 16 THEN diag_scan4x4_inv[y \div 4][x \div 4] * 16
            ELSE diag_scan8x8_inv[y \div 4][x \div 4] * 16)
    ELSE IF scan_idx = SCAN_HORIZ
    THEN horiz_scan8x8_inv[y][x]
    ELSE horiz_scan8x8_inv[x][y]

(* ------------------------------------------------------------------ *)
(* ff_hevc_hls_residual_coding: the last significant position           *)
(* ------------------------------------------------------------------ *)
\* a truncated-unary prefix read from the k-th bin on: its value and the bins read
LastPrefix(k, max) ==
    LET i == Ones(k, max)
    IN  [ val |-> i, n |-> IF i < max THEN i + 1 ELSE i ]

\* elem_offset of the elements of the residual decoder
elem_offset ==
    [ LAST_SIGNIFICANT_COEFF_X_PREFIX |-> 52, LAST_SIGNIFICANT_COEFF_Y_PREFIX |-> 70,
      SIGNIFICANT_COEFF_GROUP_FLAG |-> 88, SIGNIFICANT_COEFF_FLAG |-> 92,
      COEFF_ABS_LEVEL_GREATER1_FLAG |-> 136, COEFF_ABS_LEVEL_GREATER2_FLAG |-> 160,
      COEFF_ABS_LEVEL_REMAINING |-> 166 ]

\* the context of a prefix bin without ctx_shift
LastCtx_unshifted(c_idx, log2_size, i) ==
    i + (IF c_idx = 0 THEN 3 * (log2_size - 2) + ((log2_size - 1) \div 4) ELSE 15)

\* (i >> ctx_shift) + ctx_offset: the context of the i-th bin of a prefix, counted from
\* elem_offset[LAST_SIGNIFICANT_COEFF_X_PREFIX] or ..._Y_PREFIX
LastCtx(c_idx, log2_size, i) ==
    IF c_idx = 0
    THEN (i \div 2 ^ ((log2_size + 1) \div 4))
         + 3 * (log2_size - 2) + ((log2_size - 1) \div 4)
    ELSE (i \div 2 ^ (log2_size - 2)) + 15

\* last_significant_coeff_suffix_decode: (prefix >> 1) - 1 bypass bins
LastSuffix(k, prefix) == BinsValue(k, (prefix \div 2) - 1)

\* the position without the low bit of the prefix
LastPos_even(prefix, suffix) ==
    IF prefix > 3 THEN 2 ^ ((prefix \div 2) - 1) * 2 + suffix ELSE prefix

\* the position of a prefix above 3 and its suffix
LastPos(prefix, suffix) ==
    IF prefix > 3 THEN 2 ^ ((prefix \div 2) - 1) * (2 + (prefix % 2)) + suffix ELSE prefix

\* from the prefixes to the subblock loop: prefixes, suffixes, the swap of a vertical
\* scan, num_coeff and num_last_subset; a lookup outside its table reads any byte
decode_last ==
    /\ pc = "res_last"
    /\ LET max == tu.log2_trafo_size * 2 - 1
           px == LastPrefix(0, max)
           py == LastPrefix(px.n, max)
           k1 == px.n + py.n
           nx == IF px.val > 3 THEN (px.val \div 2) - 1 ELSE 0
           ny == IF py.val > 3 THEN (py.val \div 2) - 1 ELSE 0
           x0 == LastPos(px.val, LastSuffix(k1, px.val))
           y0 == LastPos(py.val, LastSuffix(k1 + nx, py.val))
           x == IF tu.scan_idx = SCAN_VERT THEN y0 ELSE x0
           y == IF tu.scan_idx = SCAN_VERT THEN x0 ELSE y0
           inb == LastScanInBounds(tu.scan_idx, 2 ^ tu.log2_trafo_size, x, y)
       IN  \E pos \in (IF inb THEN { LastScanPos(tu.scan_idx, 2 ^ tu.log2_trafo_size, x, y) }
                        ELSE OobBytes) :
           /\ rc' = [rc EXCEPT !.last_significant_coeff_x = x,
                               !.last_significant_coeff_y = y,
                               !.num_coeff = pos + 1,
                               !.num_last_subset = pos \div 16,
                               !.i = pos \div 16]
           /\ bpos' = Skip(k1 + nx + ny)
           /\ obs' = [ step |-> "last", prefix_x |-> px.val, prefix_y |-> py.val,
                       from |-> bpos, nbins |-> k1 + nx + ny, visited |-> << >>,
                       in_bounds |-> inb,
                       ctx_x |-> { LastCtx(tu.c_idx, tu.log2_trafo_size, i) :
                                     i \in 0 .. px.n - 1 },
                       ctx_y |-> { LastCtx(tu.c_idx, tu.log2_trafo_size, i) :
                                     i \in 0 .. py.n - 1 } ]
    /\ pc' = "res_sub"
    /\ UNCHANGED << v4l2vars, ctbvars, stat_coeff, bins, tu, coeffs, mvd >>

(* ------------------------------------------------------------------ *)
(* ff_hevc_hls_residual_coding: one subblock, significance              *)
(* ------------------------------------------------------------------ *)
\* the D4x4, H4x4 and V4x4 orders of the 16 initialisers of a map, by scan_idx
MapOrder ==
    Tab(<< Tab(<< 0, 4, 1, 8, 5, 2, 12, 9, 6, 3, 13, 10, 7, 14, 11, 15 >>),
           Tab(<< 0, 1, 2, 3, 4, 5, 6, 7, 8, 9, 10, 11, 12, 13, 14, 15 >>),
           Tab(<< 0, 4, 8, 12, 1, 5, 9, 13, 2, 6, 10, 14, 3, 7, 11, 15 >>) >>)

\* the arguments x0 .. x15 of the maps
ts2_args == Tab(<< 0, 1, 4, 5, 2, 3, 4, 5, 6, 6, 8, 8, 7, 7, 8, 8 >>)

prev_sig_args ==
    Tab(<< Tab(<< 1, 1, 1, 0, 1, 1, 0, 0, 1, 0, 0, 0, 0, 0, 0, 0 >>),
           Tab(<< 2, 2, 2, 2, 1, 1, 1, 1, 0, 0, 0, 0, 0, 0, 0, 0 >>),
           Tab(<< 2, 1, 0, 0, 2, 1, 0, 0, 2, 1, 0, 0, 2, 1, 0, 0 >>),
           Tab(<< 2, 2, 2, 2, 2, 2, 2, 2, 2, 2, 2, 2, 2, 2, 2, 2 >>) >>)

ctx_idx_maps_ts2 == [s \in 0 .. 2 |-> [n \in 0 .. 15 |-> ts2_args[MapOrder[s][n]]]]

ctx_idx_maps ==
    [s \in 0 .. 2 |-> [p \in 0 .. 3 |-> [n \in 0 .. 15 |-> prev_sig_args[p][MapOrder[s][n]]]]]

\* significant_coeff_group_flag[x][y] of the 8x8 array, kept as the set of its 1 entries
GroupFlag(g, x, y) == IF << x, y >> \in g THEN 1 ELSE 0

FFMIN(a, b) == IF a < b THEN a ELSE b

FFMAX(a, b) == IF a > b THEN a ELSE b

\* ctx_cg of a subblock whose flag is decoded
CtxCg(t, g, x_cg, y_cg) ==
    (IF x_cg < 2 ^ (t.log2_trafo_size - 2) - 1 THEN GroupFlag(g, x_cg + 1, y_cg) ELSE 0)
    + (IF y_cg < 2 ^ (t.log2_trafo_size - 2) - 1 THEN GroupFlag(g, x_cg, y_cg + 1) ELSE 0)

\* the context increment of significant_coeff_group_flag_decode
SigGroupInc_noclip(c_idx, ctx_cg) == ctx_cg + (IF c_idx > 0 THEN 2 ELSE 0)

SigGroupInc(c_idx, ctx_cg) == FFMIN(ctx_cg, 1) + (IF c_idx > 0 THEN 2 ELSE 0)

\* prev_sig of a subblock
PrevSig(t, g, x_cg, y_cg) ==
    (IF x_cg < (2 ^ t.log2_trafo_size - 1) \div 4 THEN GroupFlag(g, x_cg + 1, y_cg) ELSE 0)
    + (IF y_cg < (2 ^ t.log2_trafo_size - 1) \div 4 THEN 2 * GroupFlag(g, x_cg, y_cg + 1) ELSE 0)

FlatSigCtx(t, tsb) == t.transform_skip_context_enabled_flag = 1 /\ tsb = 1

\* scf_offset and ctx_idx_map_p of the positions n_end .. 1
SigCtxMap_flat40(t, tsb, scan_idx, prev_sig, x_cg, y_cg) ==
    [ scf_offset |-> IF t.c_idx = 0 THEN 40 ELSE 41, map |-> [n \in 0 .. 15 |-> 0] ]

SigCtxMap(t, tsb, scan_idx, prev_sig, x_cg, y_cg) ==
    IF FlatSigCtx(t, tsb)
    THEN [ scf_offset |-> IF t.c_idx = 0 THEN 40 ELSE 14 + 27, map |-> ctx_idx_maps[0][3] ]
    ELSE IF t.log2_trafo_size = 2
    THEN [ scf_offset |-> IF t.c_idx # 0 THEN 27 ELSE 0, map |-> ctx_idx_maps_ts2[scan_idx] ]
    ELSE [ scf_offset |->
               IF t.c_idx = 0
               THEN (IF x_cg > 0 \/ y_cg > 0 THEN 3 ELSE 0)
                    + (IF t.log2_trafo_size = 3
                       THEN (IF scan_idx = SCAN_DIAG THEN 9 ELSE 15)
                       ELSE 21)
               ELSE 27 + (IF t.log2_trafo_size = 3 THEN 9 ELSE 12),
           map |-> ctx_idx_maps[scan_idx][prev_sig] ]

\* scf_offset of position 0, given the scf_offset of the other positions
SigCtx0(t, tsb, i, scf_offset) ==
    IF FlatSigCtx(t, tsb)
    THEN (IF t.c_idx = 0 THEN 42 ELSE 16 + 27)
    ELSE IF i = 0
    THEN (IF t.c_idx = 0 THEN 0 ELSE 27)
    ELSE 2 + scf_offset

\* get_sig_coeff_flag_idxs: the positions n, n-1, .. 1 whose bin is 1, in that order;
\* the bin of position p is the (n - p)-th from the k-th bin on
RECURSIVE SigIdxs(_, _, _)
SigIdxs(k, n, p) ==
    IF p = 0 THEN << >>
    ELSE (IF Bin(k + n - p) = 1 THEN << p >> ELSE << >>) \o SigIdxs(k, n, p - 1)

\* the significance part of one iteration of the subblock loop, read from the next bin
\* on: the group flag, the list significant_coeff_flag_idx, the contexts used
Significance(t, r) ==
    LET i == r.i
        tabs == ScanTables(t.scan_idx, 2 ^ t.log2_trafo_size)
        x_cg == tabs.x_cg[i]
        y_cg == tabs.y_cg[i]
        g0 == r.significant_coeff_group_flag
        coded == i < r.num_last_subset /\ i > 0
        ctx_cg == CtxCg(t, g0, x_cg, y_cg)
        flag == IF coded THEN Bin(0) ELSE 1
        k0 == IF coded THEN 1 ELSE 0
        g == IF flag = 1 THEN g0 \cup {<< x_cg, y_cg >>} ELSE g0
        last_scan_pos == r.num_coeff - i * 16 - 1
        n_end == IF i = r.num_last_subset THEN last_scan_pos - 1 ELSE 15
        first == IF i = r.num_last_subset THEN << last_scan_pos >> ELSE << >>
        prev_sig == PrevSig(t, g, x_cg, y_cg)
        cm == SigCtxMap(t, r.trans_skip_or_bypass, t.scan_idx, prev_sig, x_cg, y_cg)
        scan == flag = 1 /\ n_end >= 0
        found == IF scan /\ n_end > 0 THEN SigIdxs(k0, n_end, n_end) ELSE << >>
        k1 == k0 + (IF scan /\ n_end > 0 THEN n_end ELSE 0)
        implicit == coded /\ Len(found) = 0
        scf0 == SigCtx0(t, r.trans_skip_or_bypass, i, cm.scf_offset)
        read0 == scan /\ ~implicit
        zero == IF ~scan THEN << >>
                ELSE IF implicit \/ Bin(k1) = 1 THEN << 0 >> ELSE << >>
        k2 == k1 + (IF read0 THEN 1 ELSE 0)
    IN  [ x_cg |-> x_cg, y_cg |-> y_cg, group |-> g, group_coded |-> coded,
          group_inc |-> IF coded THEN SigGroupInc(t.c_idx, ctx_cg) ELSE -1,
          group_flag |-> flag,
          idx |-> first \o found \o zero,
          sig_ctx |-> (IF scan /\ n_end > 0
                       THEN {<< p, cm.scf_offset + cm.map[p] >> : p \in 1 .. n_end}
                       ELSE {})
                      \cup (IF read0 THEN {<< 0, scf0 >>} ELSE {}),
          n |-> k2 ]

(* ------------------------------------------------------------------ *)
(* ff_hevc_hls_residual_coding: one subblock, levels                    *)
(* ------------------------------------------------------------------ *)
\* the value of a remainder of prefix p with Rice parameter k and its suffix bins
RemainingValue(p, rc_rice_param, suffix) ==
    IF p < 3 THEN p * 2 ^ rc_rice_param + suffix
    ELSE (2 ^ (p - 3) + 3 - 1) * 2 ^ rc_rice_param + suffix

RemainingSuffixLen(p, rc_rice_param) ==
    IF p < 3 THEN rc_rice_param ELSE p - 3 + rc_rice_param

\* coeff_abs_level_remaining_decode without get_cabac_bypeek22: bin by bin, the
\* prefix stopped at CABAC_MAX_BIN, where it logs and returns 0
RemainingLoop(k, rc_rice_param) ==
    LET p == Ones(k, CABAC_MAX_BIN)
        ns == RemainingSuffixLen(p, rc_rice_param)
    IN  IF p = CABAC_MAX_BIN
        THEN [ val |-> 0, n |-> p, prefix |-> p, err |-> TRUE ]
        ELSE [ val |-> RemainingValue(p, rc_rice_param, BinsValue(k + p + 1, ns)),
               n |-> p + 1 + ns, prefix |-> p, err |-> FALSE ]

\* the peek of 22 bins: the prefix is the count of leading 1 bins of the peeked word
PEEK_BITS == 22

\* coeff_abs_level_remaining_decode_alt1, and coeff_abs_level_remaining_decode with
\* get_cabac_bypeek22: no stop of the prefix, nothing logged
RemainingPeek(k, rc_rice_param) ==
    LET p == Ones(k, PEEK_BITS)
        ns == RemainingSuffixLen(p, rc_rice_param)
    IN  [ val |-> RemainingValue(p, rc_rice_param, BinsValue(k + p + 1, ns)),
          n |-> p + 1 + ns, prefix |-> p, err |-> FALSE ]

\* coeff_abs_level_remaining_decode of the build
coeff_abs_level_remaining_decode(t, k, rc_rice_param) ==
    IF t.bypeek22 = 1 THEN RemainingPeek(k, rc_rice_param) ELSE RemainingLoop(k, rc_rice_param)

\* the index into stat_coeff with the channels the other way round
StatIdx_chroma_first(t, tsb) == (IF t.c_idx = 0 THEN 0 ELSE 2) + tsb

\* the index into stat_coeff of the block
StatIdx(t, tsb) == (IF t.c_idx = 0 THEN 2 ELSE 0) + tsb

\* idx_delta of the greater1 and greater2 contexts
IdxDelta(t, ctx_set) == (IF t.c_idx > 0 THEN 4 ELSE 0) + ctx_set

\* the return value without the clearing of the first coded bit
CodedVals_keep_first(ones, first, gt2, n_end) == ones \cup (8 .. n_end - 1)

\* the return value of get_greaterx_bits as the set of list positions whose bit is
\* set: the positions with a greater1 bin of 1, less the first of them when its
\* greater2 bin is 0, and every position from 8 on
CodedVals(ones, first, gt2, n_end) ==
    (ones \ (IF gt2 = 0 THEN {first} ELSE {})) \cup (8 .. n_end - 1)

\* get_greaterx_bits from the k-th bin on: at most 8 greater1 bins, the greater2 bin of
\* the first coefficient above 1; levels by list position, the coefficients that have
\* a remainder (coded_vals), the greater1 context increments used, the bins read
get_greaterx_bits(k, n_end) ==
    LET n == IF n_end > 8 THEN 8 ELSE n_end
        ones == {j \in 0 .. n - 1 : Bin(k + j) = 1}
        any == ones # {}
        first == IF any THEN CHOOSE j \in ones : \A l \in ones : j <= l ELSE -1
        gt2 == IF any THEN Bin(k + n) ELSE 0
    IN  [ levels |-> [m \in 0 .. n_end - 1 |->
                         IF m >= 8 THEN 1
                         ELSE IF m = first THEN (IF gt2 = 1 THEN 3 ELSE 2)
                         ELSE 1 + Bin(k + m)],
          coded |-> CodedVals(ones, first, gt2, n_end),
          prev_subset_coded |-> IF any THEN 1 ELSE 0,
          eq2 |-> IF any /\ gt2 = 0 THEN 1 ELSE 0,
          gt1_idx |-> [m \in 1 .. n |->
                          IF \E j \in ones : j < m - 1 THEN 0 ELSE IF m - 1 < 3 THEN m ELSE 3],
          gt2_read |-> any,
          gt1 |-> [m \in 1 .. n |-> Bin(k + m - 1)],
          gt2 |-> IF any THEN << gt2 >> ELSE << >>,
          n |-> n + (IF any THEN 1 ELSE 0) ]

\* the one element of a singleton
Only(S) == CHOOSE v \in S : TRUE

\* c_rice_param after a remainder, with no upper limit
RiceNext_uncapped(adapt, c_rice_param, level, last_coeff_abs_level_remaining) ==
    IF level + last_coeff_abs_level_remaining > 3 * 2 ^ c_rice_param
    THEN c_rice_param + 1 ELSE c_rice_param

\* c_rice_param after a remainder, by the remainder alone
RiceNext_by_remainder(adapt, c_rice_param, level, last_coeff_abs_level_remaining) ==
    IF last_coeff_abs_level_remaining > 3 * 2 ^ c_rice_param
    THEN (IF adapt THEN c_rice_param + 1 ELSE FFMIN(c_rice_param + 1, 4))
    ELSE c_rice_param

\* c_rice_param after the remainder of a coefficient of base level *level:
\* trans_coeff_level = *level + last_coeff_abs_level_remaining is compared with
\* 3 << c_rice_param; the limit of 4 is applied only without rice adaptation
RiceNext(adapt, c_rice_param, level, last_coeff_abs_level_remaining) ==
    IF level + last_coeff_abs_level_remaining > 3 * 2 ^ c_rice_param
    THEN (IF adapt THEN c_rice_param + 1 ELSE FFMIN(c_rice_param + 1, 4))
    ELSE c_rice_param

\* one iteration of the loop over coded_vals for list position m: st is
\* [k, levels, sum_abs, rice, stat, first, rices, rems, which]
RemainderStep(t, tsb, m, st) ==
    LET adapt == t.persistent_rice_adaptation_enabled_flag = 1
        si == StatIdx(t, tsb)
    IN  Only({ [ k |-> st.k + r.n,
                 levels |-> [st.levels EXCEPT ![m] = st.levels[m] + r.val],
                 sum_abs |-> st.sum_abs + (st.levels[m] + r.val) - 1,
                 rice |-> RiceNext(adapt, st.rice, st.levels[m], r.val),
                 stat |-> IF adapt /\ st.first
                          THEN [st.stat EXCEPT ![si] = update_rice(st.stat[si], r.val, st.rice)]
                          ELSE st.stat,
                 first |-> FALSE,
                 rices |-> st.rices \o << st.rice >>,
                 rems |-> st.rems \o << r.val >>,
                 which |-> st.which \o << m >> ] :
               r \in { RemainingPeek(st.k, st.rice) } })

\* the loop over coded_vals, lowest list position first: the list positions m .. n - 1
RECURSIVE RemainderLoop(_, _, _, _, _, _)
RemainderLoop(t, tsb, coded, m, n, st) ==
    IF m >= n THEN st
    ELSE Only({ RemainderLoop(t, tsb, coded, m + 1, n, s2) :
                  s2 \in { IF m \in coded THEN RemainderStep(t, tsb, m, st) ELSE st } })

\* sign hiding decided by the number of coefficients of the list
SignHidden_by_count(t, r, idx) ==
    IF t.sign_data_hiding_flag = 0 \/ t.cu_transquant_bypass_flag = 1 THEN 0
    ELSE IF Len(idx) > 3 THEN 1 ELSE 0

\* sign hiding applies to the list idx of a subblock
SignHidden(t, r, idx) ==
    IF \/ t.sign_data_hiding_flag = 0
       \/ t.cu_transquant_bypass_flag = 1
       \/ /\ t.pred_mode = MODE_INTRA
          /\ t.implicit_rdpcm_enabled_flag = 1
          /\ r.trans_skip_or_bypass = 1
          /\ t.pred_mode_intra \in {10, 26}
       \/ r.explicit_rdpcm_flag = 1
    THEN 0
    ELSE IF idx[1] - idx[Len(idx)] > 3 THEN 1 ELSE 0

\* the level of the last list position is negated
HideSign_never(sign_hidden, sum_abs) == FALSE

HideSign(sign_hidden, sum_abs) == sign_hidden = 1 /\ sum_abs % 2 # 0

\* ctx_set without prev_subset_coded
CtxSet_by_position(t, r) == IF r.i > 0 /\ t.c_idx = 0 THEN 2 ELSE 0

\* ctx_set of a subblock
CtxSet(t, r) ==
    (IF r.i > 0 /\ t.c_idx = 0 THEN 2 ELSE 0)
    + (IF r.i # r.num_last_subset /\ r.prev_subset_coded # 0 THEN 1 ELSE 0)

\* the n_end == 1 case from the k-th bin on
LevelsOne(t, r, stat, k) ==
    LET gt1 == Bin(k)
        coded_val == IF gt1 = 1 THEN Bin(k + 1) ELSE 0
        ks == k + 1 + gt1
        coeff_sign_flag == Bin(ks)
        adapt == t.persistent_rice_adaptation_enabled_flag = 1
        si == StatIdx(t, r.trans_skip_or_bypass)
        c_rice_param == IF adapt THEN stat[si] \div 4 ELSE 0
        rem == IF coded_val = 1
               THEN coeff_abs_level_remaining_decode(t, ks + 1, c_rice_param)
               ELSE [ val |-> 0, n |-> 0, prefix |-> 0, err |-> FALSE ]
        abs == IF coded_val = 1 THEN 3 + rem.val ELSE 1 + gt1
    IN  [ levels |-> [m \in {0} |-> IF coeff_sign_flag = 1 THEN -abs ELSE abs],
          abs |-> [m \in {0} |-> abs],
          sum_abs |-> abs,
          prev_subset_coded |-> gt1,
          sign_hidden |-> 0,
          nsign |-> 1,
          stat |-> IF coded_val = 1 /\ adapt
                   THEN [stat EXCEPT ![si] = update_rice(stat[si], rem.val, c_rice_param)]
                   ELSE stat,
          gt1_inc |-> << IdxDelta(t, CtxSet(t, r)) * 4 + 1 >>,
          gt2_inc |-> IF gt1 = 1 THEN << IdxDelta(t, CtxSet(t, r)) >> ELSE << >>,
          rices |-> IF coded_val = 1 THEN << c_rice_param >> ELSE << >>,
          rems |-> IF coded_val = 1 THEN << rem.val >> ELSE << >>,
          which |-> IF coded_val = 1 THEN << 0 >> ELSE << >>,
          base |-> [m \in {0} |-> 1 + gt1 + coded_val],
          gt1 |-> << gt1 >>,
          gt2 |-> IF gt1 = 1 THEN << coded_val >> ELSE << >>,
          err |-> rem.err,
          n |-> ks + 1 + rem.n - k ]

\* the n_end > 1 case from the k-th bin on, for the list idx
LevelsMany(t, r, stat, k, idx) ==
    LET n_end == Len(idx)
        sign_hidden == SignHidden(t, r, idx)
        nsign == n_end - sign_hidden
        adapt == t.persistent_rice_adaptation_enabled_flag = 1
        si == StatIdx(t, r.trans_skip_or_bypass)
        Signed(gx, fin) ==
            LET ksign == k + gx.n
                hide == HideSign(sign_hidden, fin.sum_abs)
                hidden == [m \in 0 .. n_end - 1 |->
                              IF hide /\ m = n_end - 1 THEN -fin.levels[m] ELSE fin.levels[m]]
            IN  [ levels |-> [m \in 0 .. n_end - 1 |->
                                 IF m < nsign /\ Bin(ksign + m) = 1
                                 THEN -hidden[m] ELSE hidden[m]],
                  abs |-> fin.levels,
                  sum_abs |-> fin.sum_abs,
                  prev_subset_coded |-> gx.prev_subset_coded,
                  sign_hidden |-> sign_hidden,
                  nsign |-> nsign,
                  stat |-> fin.stat,
                  gt1_inc |-> [m \in 1 .. Len(gx.gt1_idx) |->
                                  IdxDelta(t, CtxSet(t, r)) * 4 + gx.gt1_idx[m]],
                  gt2_inc |-> IF gx.gt2_read THEN << IdxDelta(t, CtxSet(t, r)) >> ELSE << >>,
                  rices |-> fin.rices,
                  rems |-> fin.rems,
                  which |-> fin.which,
                  base |-> gx.levels,
                  gt1 |-> gx.gt1,
                  gt2 |-> gx.gt2,
                  err |-> FALSE,
                  n |-> fin.k - k ]
    IN  Only({ Only({ Signed(gx, fin) :
                        fin \in { RemainderLoop(t, r.trans_skip_or_bypass, gx.coded, 0, n_end,
                                      [ k |-> k + gx.n + nsign, levels |-> gx.levels,
                                        sum_abs |-> n_end + gx.eq2,
                                        rice |-> IF adapt THEN stat[si] \div 4 ELSE 0,
                                        stat |-> stat, first |-> TRUE, rices |-> << >>,
                                        rems |-> << >>, which |-> << >> ]) } }) :
                 gx \in { get_greaterx_bits(k, n_end) } })

(* ------------------------------------------------------------------ *)
(* ff_hevc_hls_residual_coding: the subblock loop and the transform     *)
(* ------------------------------------------------------------------ *)
NoLevels ==
    [ levels |-> << >>, abs |-> << >>, sum_abs |-> 0, prev_subset_coded |-> 0,
      sign_hidden |-> 0, nsign |-> 0, gt1_inc |-> << >>, gt2_inc |-> << >>,
      rices |-> << >>, rems |-> << >>, which |-> << >>, base |-> << >>,
      gt1 |-> << >>, gt2 |-> << >>, err |-> FALSE, n |-> 0 ]

\* the stores with t_offset taken inside the subblock alone
Stores_in_subblock(t, r, sg, levels) ==
    LET tabs == ScanTables(t.scan_idx, 2 ^ t.log2_trafo_size)
    IN  [m \in 0 .. Len(sg.idx) - 1 |->
            LET x_c == tabs.x_off[sg.idx[m + 1]]
                y_c == tabs.y_off[sg.idx[m + 1]]
                t_offset == y_c * 2 ^ t.log2_trafo_size + x_c
            IN  [ t_offset |-> t_offset, level |-> levels[m],
                  scale_m |-> IF t_offset # 0 THEN r.scale_matrix ELSE r.dc_scale ]]

\* the stores of a subblock: t_offset, level and scale_m by list position
Stores(t, r, sg, levels) ==
    LET tabs == ScanTables(t.scan_idx, 2 ^ t.log2_trafo_size)
    IN  [m \in 0 .. Len(sg.idx) - 1 |->
            LET x_c == sg.x_cg * 4 + tabs.x_off[sg.idx[m + 1]]
                y_c == sg.y_cg * 4 + tabs.y_off[sg.idx[m + 1]]
                t_offset == y_c * 2 ^ t.log2_trafo_size + x_c
            IN  [ t_offset |-> t_offset, level |-> levels[m],
                  scale_m |-> IF t_offset # 0 THEN r.scale_matrix ELSE r.dc_scale ]]

\* one iteration of for (i = num_last_subset; i >= 0; i--)
decode_subblock ==
    /\ pc = "res_sub"
    /\ rc.i >= 0
    /\ \E sg \in {Significance(tu, rc)} :
       \E lv \in {IF Len(sg.idx) = 0 THEN NoLevels @@ [ stat |-> stat_coeff ]
                   ELSE IF Len(sg.idx) = 1 THEN LevelsOne(tu, rc, stat_coeff, sg.n)
                   ELSE LevelsMany(tu, rc, stat_coeff, sg.n, sg.idx)} :
       \E st \in {Stores(tu, rc, sg, lv.levels)} :
       \* what an overflowing product gives is a property of the build: it is chosen at
       \* the first overflow of the block and kept in rc.ub for the rest of it
       \E ub \in (IF rc.ub # << >> THEN {rc.ub}
                   ELSE IF \A m \in DOMAIN st :
                        /\ MulFits(st[m].level, rc.scale * st[m].scale_m)
                        /\ Sar(st[m].level * (rc.scale * st[m].scale_m), rc.shift) < INT_MAX
                   THEN {<< >>} ELSE UBOutcomes) :
           /\ coeffs' = [o \in DOMAIN coeffs \cup {st[m].t_offset : m \in DOMAIN st} |->
                             IF \E m \in DOMAIN st : st[m].t_offset = o
                             THEN LET m == CHOOSE m \in DOMAIN st : st[m].t_offset = o
                                  IN  trans_scale_sat(st[m].level, rc.scale, st[m].scale_m,
                                                      rc.shift, ub)
                             ELSE coeffs[o]]
           /\ rc' = [rc EXCEPT !.i = rc.i - 1,
                               !.significant_coeff_group_flag = sg.group,
                               !.prev_subset_coded =
                                   IF Len(sg.idx) = 0 THEN rc.prev_subset_coded
                                   ELSE lv.prev_subset_coded,
                               !.err = rc.err \/ lv.err,
                               !.ub = ub]
           /\ stat_coeff' = lv.stat
           /\ bpos' = Skip(sg.n + lv.n)
           /\ obs' = [ step |-> "sub", i |-> rc.i, visited |-> Append(obs.visited, rc.i),
                       x_cg |-> sg.x_cg, y_cg |-> sg.y_cg,
                       group_coded |-> sg.group_coded, group_inc |-> sg.group_inc,
                       group_flag |-> sg.group_flag,
                       idx |-> sg.idx, sig_ctx |-> sg.sig_ctx,
                       levels |-> lv.levels, abs |-> lv.abs, sum_abs |-> lv.sum_abs,
                       sign_hidden |-> lv.sign_hidden, nsign |-> lv.nsign,
                       gt1_inc |-> lv.gt1_inc, gt2_inc |-> lv.gt2_inc, rices |-> lv.rices,
                       rems |-> lv.rems, which |-> lv.which, base |-> lv.base,
                       gt1 |-> lv.gt1, gt2 |-> lv.gt2,
                       stat |-> stat_coeff, prev |-> rc.prev_subset_coded,
                       stores |-> st, nbins |-> sg.n + lv.n ]
           /\ pc' = IF rc.i > 0 THEN "res_sub" ELSE "res_xform"
    /\ UNCHANGED << v4l2vars, ctbvars, bins, tu, mvd >>

\* col_limit of the general inverse transform
ColLimit_uncapped(x, y) == x + y + 4

ColLimit(x, y) ==
    LET max_xy == FFMAX(x, y)
        col_limit == x + y + 4
    IN  IF max_xy < 4 THEN FFMIN(4, col_limit)
        ELSE IF max_xy < 8 THEN FFMIN(8, col_limit)
        ELSE IF max_xy < 12 THEN FFMIN(24, col_limit)
        ELSE col_limit

\* the transform that is called on coeffs after the loop
TransformOf(t, r) ==
    LET rdpcm_bypass == r.explicit_rdpcm_flag = 1
                        \/ (t.implicit_rdpcm_enabled_flag = 1 /\ t.pred_mode_intra \in {10, 26})
    IN  IF t.cu_transquant_bypass_flag = 1
        THEN (IF rdpcm_bypass THEN "transform_rdpcm" ELSE "none")
        ELSE IF r.trans_skip_or_bypass = 1 THEN "transform_skip"
        ELSE IF t.pred_mode = MODE_INTRA /\ t.c_idx = 0 /\ t.log2_trafo_size = 2
        THEN "idct_4x4_luma"
        ELSE IF FFMAX(r.last_significant_coeff_x, r.last_significant_coeff_y) = 0
        THEN "idct_dc"
        ELSE "idct"

\* the call of transform_rdpcm after the loop: whether it is made, its mode, and
\* whether the mode is read from explicit_rdpcm_dir_flag
RdpcmOf(t, r) ==
    LET none == [ called |-> FALSE, mode |-> 0, dir_read |-> FALSE ]
        vert == IF t.pred_mode_intra = 26 THEN 1 ELSE 0
        intra_dir == t.implicit_rdpcm_enabled_flag = 1 /\ t.pred_mode_intra \in {10, 26}
    IN  IF t.cu_transquant_bypass_flag = 1
        THEN (IF r.explicit_rdpcm_flag = 1 \/ intra_dir
              THEN [ called |-> TRUE,
                     mode |-> IF t.implicit_rdpcm_enabled_flag = 1 THEN vert
                              ELSE r.explicit_rdpcm_dir_flag,
                     dir_read |-> t.implicit_rdpcm_enabled_flag = 0 ]
              ELSE none)
        ELSE IF r.trans_skip_or_bypass = 1
        THEN (IF r.explicit_rdpcm_flag = 1 \/ (intra_dir /\ t.pred_mode = MODE_INTRA)
              THEN [ called |-> TRUE,
                     mode |-> IF r.explicit_rdpcm_flag = 1 THEN r.explicit_rdpcm_dir_flag
                              ELSE vert,
                     dir_read |-> r.explicit_rdpcm_flag = 1 ]
              ELSE none)
        ELSE none

\* after the loop: the inverse transform of coeffs, then transform_add of coeffs to
\* the picture
residual_finish ==
    /\ pc = "res_xform"
    /\ obs' = [ step |-> "xform", visited |-> obs.visited,
                transform |-> TransformOf(tu, rc),
                rdpcm |-> RdpcmOf(tu, rc),
                col_limit |-> ColLimit(rc.last_significant_coeff_x, rc.last_significant_coeff_y),
                transform_add |-> TRUE ]
    /\ pc' = "res_done"
    /\ UNCHANGED << v4l2vars, ctbvars, stat_coeff, bins, bpos, tu, rc, coeffs, mvd >>

(* ------------------------------------------------------------------ *)
(* The blocks and streams the residual decoder is run on                *)
(* ------------------------------------------------------------------ *)
\* all bin sequences of length 1 .. n
BinSeqs(n) == UNION { [1 .. l -> {0, 1}] : l \in 1 .. n }

\* p one bins and the zero bin that ends them when p is below max
Unary(p, max) == [j \in 1 .. (IF p < max THEN p + 1 ELSE p) |-> IF j <= p THEN 1 ELSE 0]

\* the n bins of the number v, most significant first
Bits(v, n) == [j \in 1 .. n |-> (v \div 2 ^ (n - j)) % 2]

\* the suffix length of a last-position prefix
SuffixLen(p) == IF p > 3 THEN (p \div 2) - 1 ELSE 0

\* the bins of the last position: both prefixes, then both suffixes; every position
\* of blocks up to 8x8; the positions 0, 3, 4, 5, 8, 11, 12 and 15 for 16x16, which lie
\* on both sides of each step of col_limit; the positions 0, 11 and 31 for 32x32
LastHeads(t) ==
    LET max == t.log2_trafo_size * 2 - 1
        Prefixes == IF t.log2_trafo_size <= 3 THEN 0 .. max
                    ELSE IF t.log2_trafo_size = 4 THEN {0, 3, 4, 6, 7}
                    ELSE {0, 6, max}
        Suffixes(p) == IF t.log2_trafo_size <= 3 THEN 0 .. 2 ^ SuffixLen(p) - 1
                       ELSE IF t.log2_trafo_size = 4 THEN {0, 2 ^ SuffixLen(p) - 1}
                       ELSE {IF p = 0 THEN 0 ELSE 2 ^ SuffixLen(p) - 1}
    IN  { Unary(px, max) \o Unary(py, max) \o Bits(sx, SuffixLen(px)) \o Bits(sy, SuffixLen(py)) :
            << px, sx, py, sy >> \in
                { q \in Prefixes \X (0 .. 7) \X Prefixes \X (0 .. 7) :
                    q[2] \in Suffixes(q[1]) /\ q[4] \in Suffixes(q[3]) } }

\* the bins read before the last position: transform_skip_flag, explicit_rdpcm_flag,
\* explicit_rdpcm_dir_flag
PreHeads(t) ==
    LET rdpcm(tsb) == t.pred_mode = MODE_INTER /\ t.explicit_rdpcm_enabled_flag = 1 /\ tsb
    IN  { ts \o er :
            << ts, er >> \in
                { q \in { << >>, << 0 >>, << 1 >> } \X { << >>, << 0 >>, << 1, 0 >>, << 1, 1 >> } :
                    /\ (q[1] = << >>) = ~TsCoded(t)
                    /\ (q[2] = << >>) =
                           ~rdpcm(t.cu_transquant_bypass_flag = 1 \/ q[1] = << 1 >>) } }

\* the coding tools that are on
Modes ==
    { [ qp_y |-> 26 ],
      [ sign_data_hiding_flag |-> 1 ],
      [ sign_data_hiding_flag |-> 1, persistent_rice_adaptation_enabled_flag |-> 1 ],
      [ cu_transquant_bypass_flag |-> 1, sign_data_hiding_flag |-> 1,
        transform_skip_context_enabled_flag |-> 1 ],
      [ transform_skip_enabled_flag |-> 1, log2_max_transform_skip_block_size |-> 3,
        transform_skip_context_enabled_flag |-> 1, sign_data_hiding_flag |-> 1 ],
      [ transform_skip_enabled_flag |-> 1, implicit_rdpcm_enabled_flag |-> 1,
        pred_mode_intra |-> 26, sign_data_hiding_flag |-> 1 ],
      [ pred_mode |-> MODE_INTER, transform_skip_enabled_flag |-> 1,
        explicit_rdpcm_enabled_flag |-> 1, sign_data_hiding_flag |-> 1 ],
      [ pred_mode |-> MODE_INTER, scaling_list_enable_flag |-> 1, sl |-> 1, sl_dc |-> 255,
        qp_y |-> 4, bypeek22 |-> 1 ] }

\* the coding tools of the 8x8 blocks
MidModes ==
    { [ qp_y |-> 26 ],
      [ sign_data_hiding_flag |-> 1, persistent_rice_adaptation_enabled_flag |-> 1 ],
      [ transform_skip_enabled_flag |-> 1, log2_max_transform_skip_block_size |-> 3,
        transform_skip_context_enabled_flag |-> 1, sign_data_hiding_flag |-> 1 ],
      [ pred_mode |-> MODE_INTER, scaling_list_enable_flag |-> 1, sl |-> 1, sl_dc |-> 255,
        qp_y |-> 4, bypeek22 |-> 1 ] }

\* the 4x4 and 8x8 blocks: every scan order, luma and chroma
SmallTus ==
    { With(BaseTu, [ log2_trafo_size |-> g[1], scan_idx |-> g[2], c_idx |-> g[3] ] @@ g[4]) :
        g \in (({2} \X {SCAN_DIAG, SCAN_HORIZ, SCAN_VERT} \X {0, 1} \X Modes)
               \cup ({3} \X {SCAN_DIAG, SCAN_HORIZ, SCAN_VERT} \X {0, 1} \X MidModes)) }

\* the 16x16 and 32x32 blocks, whose scan is the diagonal one
BigTus ==
    { With(BaseTu, [ log2_trafo_size |-> 4, qp_y |-> 26 ]),
      With(BaseTu, [ log2_trafo_size |-> 4, c_idx |-> 1, pred_mode |-> MODE_INTER,
                     sign_data_hiding_flag |-> 1 ]),
      With(BaseTu, [ log2_trafo_size |-> 5, qp_y |-> 26 ]) }

ResTus == SmallTus \cup BigTus

AllOnes(s) == \A j \in DOMAIN s : s[j] = 1

\* a sequence that is not a shorter one repeated
Primitive(c) ==
    \A l \in 1 .. Len(c) - 1 :
        Len(c) % l # 0 \/ \E j \in 1 .. Len(c) - l : c[j] # c[j + l]

\* a cycle that holds remainders of prefix 3, the least that update_rice counts up
RiceCycle == << 1, 1, 1, 0 >>

\* a cycle that gives, after five significant_coeff_flag bins that are 1, the
\* greater1 bins 0, 0, 0, 0, 1, 1
Gt1Cycle == << 1, 1, 1, 1, 1, 0, 0, 0, 0, 1 >>

\* the bins after the last position repeat with a period of at most MaxPeriod, or
\* MaxPeriodBig for blocks above 4x4; the cycle of 1 bins alone, which makes every
\* remainder the longest there is, is left out where c_rice_param would grow without
\* bound and for the 8x8 blocks with sign data hiding; with rice adaptation RiceCycle
\* takes its place; the 4x4 blocks with no coding tool on have Gt1Cycle as well
ResCycles(t) ==
    { c \in BinSeqs(IF t.log2_trafo_size <= 2 THEN MaxPeriod ELSE MaxPeriodBig) :
        /\ Primitive(c)
        /\ t.persistent_rice_adaptation_enabled_flag = 1 => ~AllOnes(c)
        /\ t.log2_trafo_size = 3 /\ t.sign_data_hiding_flag = 1 => ~AllOnes(c) }
    \cup (IF t.persistent_rice_adaptation_enabled_flag = 1 THEN { RiceCycle } ELSE {})
    \cup (IF /\ t.log2_trafo_size = 2
              /\ t.sign_data_hiding_flag = 0
              /\ t.scaling_list_enable_flag = 0
           THEN { Gt1Cycle } ELSE {})

ResStreams(t) ==
    { [ head |-> pre \o last, cyc |-> c ] :
        << pre, last, c >> \in PreHeads(t) \X LastHeads(t) \X ResCycles(t) }

InitRes ==
    /\ CtbIdle
    /\ V4l2Idle
    /\ pc = "res_entry"
    /\ tu \in ResTus
    /\ bins \in ResStreams(tu)
    /\ bpos = 1
    /\ stat_coeff \in {ZeroStat} \cup
                      (IF tu.persistent_rice_adaptation_enabled_flag = 1
                       THEN {[i \in 0 .. 3 |-> 21]} ELSE {})
    /\ rc = NoRc
    /\ coeffs = << >>
    /\ obs = NoObs
    /\ mvd = NoMvd

NextRes ==
    \/ residual_begin
    \/ decode_last
    \/ decode_subblock
    \/ residual_finish

SpecRes == InitRes /\ [][NextRes]_vars

\* the blocks of every size and scan order with no coding tool on
PlainTus ==
    { t \in ResTus :
        \A f \in DOMAIN t \ {"log2_trafo_size", "scan_idx", "c_idx"} : t[f] = BaseTu[f] }

InitResLive == InitRes /\ tu \in PlainTus

\* the function runs to its return: weak fairness of NextRes, WF_vars(NextRes), with
\* the enabling condition of NextRes written out as pc # "res_done"
SpecResLive ==
    InitResLive /\ [][NextRes]_vars /\ ([]<>(pc = "res_done") \/ []<><< NextRes >>_vars)

(* ------------------------------------------------------------------ *)
(* ff_hevc_hls_mvd_coding and ff_hevc_cu_qp_delta_abs                   *)
(* ------------------------------------------------------------------ *)
\* get_cabac_bypass_sign(c, val) of cabac_functions.h: one bypass bin, val itself when
\* the bin is 1 and -val when it is 0
get_cabac_bypass_sign(bin, val) == IF bin = 1 THEN val ELSE 0 - val

\* mvd_decode without its sign bin
mvd_decode_unsigned(k0) ==
    LET ones == Ones(k0, CABAC_MAX_BIN - 1)
        k == 1 + ones
    IN  IF k = CABAC_MAX_BIN
        THEN [ val |-> 0, n |-> ones, err |-> TRUE ]
        ELSE [ val |-> 2 ^ k + BinsValue(k0 + ones + 1, k), n |-> ones + 1 + k,
               err |-> FALSE ]

\* mvd_decode from the k0-th bin on: k counts from 1 up to CABAC_MAX_BIN over the 1
\* bins and ret = 2 + 2 + 4 + ... reaches 2^k; at k = CABAC_MAX_BIN the function logs
\* and returns 0 with neither the bin that ends the prefix, the suffix nor the sign
\* read; otherwise k suffix bins and the sign bin follow.  n is the number of bins
\* read
mvd_decode(k0) ==
    LET ones == Ones(k0, CABAC_MAX_BIN - 1)
        k == 1 + ones
    IN  IF k = CABAC_MAX_BIN
        THEN [ val |-> 0, n |-> ones, err |-> TRUE ]
        ELSE LET ret == 2 ^ k + BinsValue(k0 + ones + 1, k)
             IN  [ val |-> get_cabac_bypass_sign(Bin(k0 + ones + 1 + k), 0 - ret),
                   n |-> ones + 1 + k + 1, err |-> FALSE ]

mvd_sign_flag_decode(k0) ==
    [ val |-> get_cabac_bypass_sign(Bin(k0), -1), n |-> 1, err |-> FALSE ]

\* the switch on x and on y of ff_hevc_hls_mvd_coding
MvdComponent(g, k0) ==
    IF g = 2 THEN mvd_decode(k0)
    ELSE IF g = 1 THEN mvd_sign_flag_decode(k0)
    ELSE [ val |-> 0, n |-> 0, err |-> FALSE ]

\* the flags with the greater1 flag of y read before that of x
MvdFlags_y_first(x0, y0) ==
    << "greater0_x", "greater0_y" >>
    \o (IF y0 = 1 THEN << "greater1_y" >> ELSE << >>)
    \o (IF x0 = 1 THEN << "greater1_x" >> ELSE << >>)

\* the context-coded flags of ff_hevc_hls_mvd_coding in the order they are read, given
\* the two abs_mvd_greater0_flag bins
MvdFlags(x0, y0) ==
    << "greater0_x", "greater0_y" >>
    \o (IF x0 = 1 THEN << "greater1_x" >> ELSE << >>)
    \o (IF y0 = 1 THEN << "greater1_y" >> ELSE << >>)

\* the bin, counted from the first of the call, that holds the flag e
FlagAt(flags, e) == (CHOOSE j \in DOMAIN flags : flags[j] = e) - 1

\* both greater0 flags, then the greater1 flag of each component whose greater0 flag
\* is set, then the value of x, then the value of y
ff_hevc_hls_mvd_coding ==
    /\ pc = "syn_entry"
    /\ LET x0 == Bin(0)
           y0 == Bin(1)
           flags == MvdFlags(x0, y0)
           x == IF x0 = 1 THEN x0 + Bin(FlagAt(flags, "greater1_x")) ELSE x0
           y == IF y0 = 1 THEN y0 + Bin(FlagAt(flags, "greater1_y")) ELSE y0
           kx == Len(flags)
           rx == MvdComponent(x, kx)
           ky == kx + rx.n
           ry == MvdComponent(y, ky)
       IN  /\ mvd' = [ x |-> rx.val, y |-> ry.val ]
           /\ obs' = [ step |-> "mvd", from |-> bpos, g |-> << x, y >>,
                       g0 |-> << x0, y0 >>, flags |-> flags,
                       start |-> << kx, ky >>, used |-> << rx.n, ry.n >>,
                       err |-> << rx.err, ry.err >>, nbins |-> ky + ry.n ]
           /\ bpos' = Skip(ky + ry.n)
    /\ pc' = "syn_done"
    /\ UNCHANGED << v4l2vars, ctbvars, stat_coeff, bins, tu, rc, coeffs >>

\* the truncated unary prefix of cu_qp_delta_abs: up to 5 context-coded bins
QpPrefix == Ones(0, 5)

\* the bins the prefix takes: the 0 bin that ends it is read when it is below 5
QpPrefixBins == IF QpPrefix < 5 THEN QpPrefix + 1 ELSE 5

\* ff_hevc_cu_qp_delta_abs: with a prefix of 5, k counts the 1 bins up to
\* CABAC_MAX_BIN and suffix_val reaches 2^k - 1; at k = CABAC_MAX_BIN the function
\* logs and goes on; k more bins are added to suffix_val.  The sums are ints: beyond
\* INT_MAX the result is one of UBOutcomes, the first of which is the wrapped sum
ff_hevc_cu_qp_delta_abs ==
    /\ pc = "syn_entry"
    /\ LET prefix_val == QpPrefix
           k0 == QpPrefixBins
           k == IF prefix_val >= 5 THEN Ones(k0, CABAC_MAX_BIN) ELSE 0
           ended == IF prefix_val >= 5 /\ k < CABAC_MAX_BIN THEN 1 ELSE 0
           ones == IF k = CABAC_MAX_BIN THEN INT_MAX ELSE 2 ^ k - 1
           tail == BinsValue(k0 + k + ended, k)
           n == k0 + k + ended + k
           fits == tail <= (INT_MAX - ones) - prefix_val
       IN  \E ub \in (IF fits THEN { << >> } ELSE UBOutcomes) :
             /\ obs' = [ step |-> "qp", from |-> bpos, prefix_val |-> prefix_val, k |-> k,
                         err |-> (k = CABAC_MAX_BIN), overflow |-> ~fits,
                         val |-> IF fits THEN prefix_val + ones + tail
                                 ELSE IF ub[1] = 0
                                 THEN ((ones - INT_MAX) + prefix_val - 1)
                                      + (tail - INT_MAX - 1)
                                 ELSE ub[2],
                         nbins |-> n ]
             /\ bpos' = Skip(n)
    /\ pc' = "syn_done"
    /\ UNCHANGED << v4l2vars, ctbvars, stat_coeff, bins, tu, rc, coeffs, mvd >>

\* the streams the two functions are run on: up to MaxSynHead bins, then a cycle (the
\* cycle of 1 bins makes every unary prefix reach its cap),
\* and the runs of 1 bins ended by a 0 bin that are as long as the flags and the
\* longest prefix of either function, one shorter and one longer
SynRuns == { Unary(p, p + 1) : p \in 4 + CABAC_MAX_BIN - 3 .. 5 + CABAC_MAX_BIN + 1 }

\* the values of chroma_qp_offset_list_len_minus1
ChromaListLens == 0 .. 5

\* ff_hevc_cu_chroma_qp_offset_idx: ones are counted while i < c_max, with
\* c_max = FFMAX(5, chroma_qp_offset_list_len_minus1)
ff_hevc_cu_chroma_qp_offset_idx ==
    /\ pc = "syn_entry"
    /\ \E len \in ChromaListLens :
          LET c_max == FFMAX(5, len)
              i == Ones(0, c_max)
              n == IF i < c_max THEN i + 1 ELSE i
          IN  /\ obs' = [ step |-> "chroma_qp_offset_idx", from |-> bpos,
                          chroma_qp_offset_list_len_minus1 |-> len,
                          val |-> i, nbins |-> n ]
              /\ bpos' = Skip(n)
    /\ pc' = "syn_done"
    /\ UNCHANGED << v4l2vars, ctbvars, stat_coeff, bins, tu, rc, coeffs, mvd >>

SynStreams ==
    { [ head |-> h, cyc |-> c ] :
        << h, c >> \in ({ << >> } \cup BinSeqs(MaxSynHead) \cup SynRuns)
                        \X { c \in BinSeqs(MaxPeriod) : Primitive(c) } }

InitSyn ==
    /\ CtbIdle
    /\ V4l2Idle
    /\ pc = "syn_entry"
    /\ bins \in SynStreams
    /\ bpos = 1
    /\ stat_coeff = ZeroStat
    /\ tu = NoTu
    /\ rc = NoRc
    /\ coeffs = << >>
    /\ obs = NoObs
    /\ mvd = NoMvd

NextSyn ==
    \/ ff_hevc_hls_mvd_coding
    \/ ff_hevc_cu_qp_delta_abs
    \/ ff_hevc_cu_chroma_qp_offset_idx

SpecSyn == InitSyn /\ [][NextSyn]_vars

(* ------------------------------------------------------------------ *)
(* The last significant position on its own                             *)
(* ------------------------------------------------------------------ *)
\* the blocks of every size: every scan order up to 8x8, the diagonal one above;
\* luma and chroma
LastTus ==
    { With(BaseTu, [ log2_trafo_size |-> g[1], scan_idx |-> g[2], c_idx |-> g[3] ]) :
        g \in ((2 .. 3) \X {SCAN_DIAG, SCAN_HORIZ, SCAN_VERT} \X {0, 1})
               \cup ((4 .. 5) \X {SCAN_DIAG} \X {0, 1}) }

\* every outcome of the bins of the last position of a block: each prefix up to
\* 2 * log2_trafo_size - 1 with each value of its suffix, then 0 bins
LastStreams(t) ==
    LET max == t.log2_trafo_size * 2 - 1
    IN  { [ head |-> Unary(px, max) \o Unary(py, max)
                     \o Bits(sx, SuffixLen(px)) \o Bits(sy, SuffixLen(py)),
            cyc |-> << 0 >> ] :
            << px, sx, py, sy >> \in
                { q \in (0 .. max) \X (0 .. 7) \X (0 .. max) \X (0 .. 7) :
                    q[2] < 2 ^ SuffixLen(q[1]) /\ q[4] < 2 ^ SuffixLen(q[3]) } }

InitLast ==
    /\ CtbIdle
    /\ V4l2Idle
    /\ pc = "res_entry"
    /\ tu \in LastTus
    /\ bins \in LastStreams(tu)
    /\ bpos = 1
    /\ stat_coeff = ZeroStat
    /\ rc = NoRc
    /\ coeffs = << >>
    /\ obs = NoObs
    /\ mvd = NoMvd

NextLast ==
    \/ residual_begin
    \/ decode_last

SpecLast == InitLast /\ [][NextLast]_vars

(* ------------------------------------------------------------------ *)
(* v4l2_m2m_dec.c: v4l2_receive_frame                                   *)
(* ------------------------------------------------------------------ *)
\* the value that stands for no pts: the least value of the type of a pts
AV_NOPTS_VALUE == INT_MIN

\* an AVPacket without data
NoPkt == [ id |-> 0, pts |-> 0, dts |-> 0, size |-> 0 ]

\* (V4L2m2mTrackEl){0}
NoTrackEl == [ pts |-> 0, opaque_reorder |-> 0, track_pts |-> 0 ]

\* the pts, the dts and the reordered_opaque the caller gives with the id-th packet
PktPts(id) == 40 * id + 7
PktDts(id) == 40 * id
PktOpaque(id) == 500 + id

\* pkt_timebase if its num is set, time_base otherwise
TimeBaseOf(a) == IF a.pkt_timebase[1] # 0 THEN a.pkt_timebase ELSE a.time_base

\* track_to_pts
track_to_pts(a, n) ==
    LET t == TimeBaseOf(a)
    IN  IF t[1] = 0 \/ t[2] = 0 THEN n * 1000000 ELSE (n * t[2]) \div t[1]

\* pts_to_track of a pts that is not negative, as an unsigned int
pts_to_track(a, pts) ==
    LET t == TimeBaseOf(a)
    IN  (IF t[1] = 0 \/ t[2] = 0 THEN pts \div 1000000 ELSE (pts * t[1]) \div t[2])
        % TrackNoLimit

\* ++s->track_no, and 1 in place of 0
NextTrackNo(n) == IF (n + 1) % TrackNoLimit = 0 THEN 1 ELSE (n + 1) % TrackNoLimit

\* a slot whose pts was given to a frame and is kept
TrackElUsed_kept(el) == el

\* a slot whose pts was given to a frame
TrackElUsed(el) == [el EXCEPT !.pts = AV_NOPTS_VALUE]

\* one more, up to 2
Count2(f, id) == [f EXCEPT ![id] = IF @ < 2 THEN @ + 1 ELSE @]

\* av_packet_unref(&avpkt): nothing for a packet without data
Unref(freed, avpkt) == IF avpkt.id = 0 THEN freed ELSE Count2(freed, avpkt.id)

\* the time bases of the codec context
AvCtxs ==
    { [ pkt_timebase |-> << 0, 1 >>, time_base |-> << 0, 1 >> ],
      [ pkt_timebase |-> << 1, 25 >>, time_base |-> << 1, 30 >> ],
      [ pkt_timebase |-> << 0, 1 >>, time_base |-> << 1001, 30000 >> ] }

\* the pts a frame can leave the driver with
FramePts(a) == { track_to_pts(a, n) : n \in 1 .. TrackNoLimit - 1 } \cup { 0, AV_NOPTS_VALUE }

\* the part of v4l2_receive_frame from the label dequeue on: m is the context and f
\* the unref counts as they are there, avpkt the packet of the call
Dequeue(m, f, avpkt, deq) ==
    LET freed == IF m.buf_pkt.size = 0 THEN Unref(f, avpkt) ELSE f
        n == IF deq.pts < 0 THEN 0 ELSE pts_to_track(avctx, deq.pts) % FF_V4L2_M2M_TRACK_SIZE
        el == m.track_els[n]
        fail == deq.pts = AV_NOPTS_VALUE \/ deq.pts # el.track_pts
    IN  IF deq.ret # "ok"
        THEN [ m |-> m, freed |-> freed, ret |-> deq.ret, frame |-> [ got |-> FALSE ] ]
        ELSE IF fail
        THEN [ m |-> m, freed |-> freed, ret |-> "ok",
               frame |-> [ got |-> TRUE, in_pts |-> deq.pts, n |-> n, matched |-> FALSE,
                           slot |-> el,
                           pts |-> AV_NOPTS_VALUE, pkt_pts |-> AV_NOPTS_VALUE,
                           pkt_dts |-> m.last_pkt_dts,
                           reordered_opaque |-> m.last_opaque ] ]
        ELSE [ m |-> [m EXCEPT !.last_opaque = el.opaque_reorder,
                               !.track_els[n] = TrackElUsed(el)],
               freed |-> freed, ret |-> "ok",
               frame |-> [ got |-> TRUE, in_pts |-> deq.pts, n |-> n, matched |-> TRUE,
                           slot |-> el,
                           pts |-> el.pts, pkt_pts |-> el.pts,
                           pkt_dts |-> m.last_pkt_dts,
                           reordered_opaque |-> el.opaque_reorder ] ]

\* one call of v4l2_receive_frame. get, enq, start and deq are what
\* ff_decode_get_packet, ff_v4l2_context_enqueue_packet, v4l2_try_start and
\* ff_v4l2_context_dequeue_frame return in it
ReceiveFrame(get, enq, start, deq) ==
    LET from_buf == m2m.buf_pkt.size # 0
        id == io.fetched + 1
        fetched == ~from_buf /\ get = "ok"
        track_no == NextTrackNo(m2m.track_no)
        track_pts == track_to_pts(avctx, track_no)
        avpkt == IF from_buf THEN m2m.buf_pkt
                 ELSE IF fetched
                 THEN [ id |-> id, pts |-> track_pts, dts |-> PktDts(id), size |-> 1 ]
                 ELSE NoPkt
        m1 == IF from_buf THEN [m2m EXCEPT !.buf_pkt = NoPkt]
              ELSE IF fetched
              THEN [m2m EXCEPT !.track_no = track_no,
                               !.last_pkt_dts = PktDts(id),
                               !.track_els[track_no % FF_V4L2_M2M_TRACK_SIZE] =
                                   [ pts |-> PktPts(id), opaque_reorder |-> PktOpaque(id),
                                     track_pts |-> track_pts ]]
              ELSE m2m
        io1 == [io EXCEPT !.fetched = IF fetched THEN id ELSE @,
                          !.track_of = IF fetched THEN [@ EXCEPT ![id] = track_no] ELSE @]
        call == [ from_buf |-> from_buf, get |-> IF from_buf THEN "none" ELSE get,
                  pkt |-> avpkt, enq |-> "none", start |-> "none", ret |-> "none",
                  frame |-> [ got |-> FALSE ] ]
    IN  IF ~from_buf /\ get = "error"
        THEN [ m |-> m2m, io |-> [io1 EXCEPT !.last = [call EXCEPT !.ret = "error"]] ]
        ELSE IF ~from_buf /\ get # "ok"
        THEN LET d == Dequeue(m1, io1.freed, avpkt, deq)
             IN  [ m |-> d.m,
                   io |-> [io1 EXCEPT !.freed = d.freed,
                                      !.last = [call EXCEPT !.ret = d.ret, !.frame = d.frame]] ]
        ELSE LET m2 == [m1 EXCEPT !.extdata_sent = 1,
                                  !.buf_pkt = IF enq = "EAGAIN" THEN avpkt ELSE @]
                 io2 == [io1 EXCEPT !.sent = IF enq = "ok" THEN Count2(@, avpkt.id) ELSE @]
                 c2 == [call EXCEPT !.enq = enq]
             IN  IF enq = "error"
                 THEN [ m |-> [m1 EXCEPT !.extdata_sent = 1],
                        io |-> [io2 EXCEPT !.leaked = @ \cup { avpkt.id },
                                           !.last = [c2 EXCEPT !.ret = "error"]] ]
                 ELSE IF start # "ok"
                 THEN [ m |-> m2,
                        io |-> [io2 EXCEPT !.freed = Unref(@, avpkt),
                                           !.last = [c2 EXCEPT !.start = start,
                                                               !.ret = IF start = "ENOMEM"
                                                                       THEN "ENOMEM" ELSE "ok"]] ]
                 ELSE LET d == Dequeue(m2, io2.freed, avpkt, deq)
                      IN  [ m |-> d.m,
                            io |-> [io2 EXCEPT !.freed = d.freed,
                                               !.last = [c2 EXCEPT !.start = "ok",
                                                                   !.ret = d.ret,
                                                                   !.frame = d.frame]] ]

\* what ff_v4l2_context_dequeue_frame gives: no frame, or a frame with a pts
DeqOutcomes(a) ==
    { [ ret |-> "EAGAIN", pts |-> 0 ] } \cup { [ ret |-> "ok", pts |-> p ] : p \in FramePts(a) }

v4l2_receive_frame ==
    /\ io.calls < MaxCalls
    /\ \E get \in (IF m2m.buf_pkt.size # 0 THEN { "ok" }
                   ELSE IF io.fetched < MaxPkts THEN { "ok", "EAGAIN", "EOF", "error" }
                   ELSE { "EAGAIN", "EOF", "error" }) :
       \E enq \in (IF m2m.buf_pkt.size # 0 \/ get = "ok" THEN { "ok", "EAGAIN", "error" }
                   ELSE { "none" }) :
       \E start \in (IF enq \in { "ok", "EAGAIN" } THEN { "ok", "fail", "ENOMEM" }
                     ELSE { "none" }) :
       \E deq \in (IF start = "ok" \/ (enq = "none" /\ get # "error") THEN DeqOutcomes(avctx)
                   ELSE { [ ret |-> "none", pts |-> 0 ] }) :
          LET r == ReceiveFrame(get, enq, start, deq)
          IN  /\ m2m' = r.m
              /\ io' = [r.io EXCEPT !.calls = io.calls + 1,
                                    !.handed = IF r.io.last.frame.got
                                                  /\ r.io.last.frame.pts # AV_NOPTS_VALUE
                                               THEN @ \o << r.io.last.frame.pts >> ELSE @]
    /\ UNCHANGED << avctx, ctbvars, resvars, pc, stat_coeff >>

InitV4l2 ==
    /\ CtbIdle
    /\ ResIdle
    /\ pc = "v4l2"
    /\ stat_coeff = ZeroStat
    /\ avctx \in AvCtxs
    /\ m2m \in { [ buf_pkt |-> NoPkt, track_no |-> n, last_pkt_dts |-> 0, last_opaque |-> 0,
                   extdata_sent |-> 0,
                   track_els |-> [k \in 0 .. FF_V4L2_M2M_TRACK_SIZE - 1 |-> NoTrackEl] ] :
                 n \in { 0, TrackNoLimit - 2 } }
    /\ io = [ calls |-> 0, fetched |-> 0,
              track_of |-> [id \in 1 .. MaxPkts |-> 0],
              sent |-> [id \in 1 .. MaxPkts |-> 0],
              freed |-> [id \in 1 .. MaxPkts |-> 0],
              leaked |-> {}, handed |-> << >>,
              last |-> [ from_buf |-> FALSE, get |-> "none", pkt |-> NoPkt, enq |-> "none",
                         start |-> "none", ret |-> "none", frame |-> [ got |-> FALSE ] ] ]

NextV4l2 == v4l2_receive_frame

SpecV4l2 == InitV4l2 /\ [][NextV4l2]_vars

(* ------------------------------------------------------------------ *)
(* The residual decoder on the blocks that may use RDPCM                *)
(* ------------------------------------------------------------------ *)
\* 4x4 blocks, transquant bypass or transform skip allowed, of intra and inter units,
\* with the explicit and the implicit RDPCM tool on or off
RdpcmTus ==
    { With(BaseTu, [ transform_skip_enabled_flag |-> 1,
                     cu_transquant_bypass_flag |-> g[1], pred_mode |-> g[2],
                     pred_mode_intra |-> g[3], explicit_rdpcm_enabled_flag |-> g[4],
                     implicit_rdpcm_enabled_flag |-> g[5] ]) :
        g \in {0, 1} \X {MODE_INTRA, MODE_INTER} \X {1, 10, 26} \X {0, 1} \X {0, 1} }

\* every outcome of the three bins before the last position, then one coefficient at
\* (0, 0) or at (1, 0)
RdpcmStreams ==
    { [ head |-> h, cyc |-> c ] : h \in [1 .. 3 -> {0, 1}], c \in { << 0 >>, << 1, 0, 0 >> } }

InitRdpcm ==
    /\ CtbIdle
    /\ V4l2Idle
    /\ pc = "res_entry"
    /\ tu \in RdpcmTus
    /\ bins \in RdpcmStreams
    /\ bpos = 1
    /\ stat_coeff = ZeroStat
    /\ rc = NoRc
    /\ coeffs = << >>
    /\ obs = NoObs
    /\ mvd = NoMvd

SpecRdpcm == InitRdpcm /\ [][NextRes]_vars

(* ------------------------------------------------------------------ *)
(* The last significant position for every size and scan                *)
(* ------------------------------------------------------------------ *)
\* the blocks of every size with every scan order
ScanTus ==
    { With(BaseTu, [ log2_trafo_size |-> g[1], scan_idx |-> g[2] ]) :
        g \in (2 .. 5) \X {SCAN_DIAG, SCAN_HORIZ, SCAN_VERT} }

InitScan ==
    /\ CtbIdle
    /\ V4l2Idle
    /\ pc = "res_entry"
    /\ tu \in ScanTus
    /\ bins \in LastStreams(tu)
    /\ bpos = 1
    /\ stat_coeff = ZeroStat
    /\ rc = NoRc
    /\ coeffs = << >>
    /\ obs = NoObs
    /\ mvd = NoMvd

SpecScan == InitScan /\ [][NextLast]_vars

(* ------------------------------------------------------------------ *)
(* The two decoders of a remainder on the same bins                     *)
(* ------------------------------------------------------------------ *)
\* the largest c_rice_param without rice adaptation
RICE_CAP == 4

\* (((1 << prefix_minus3) + 3 - 1) << rc_rice_param) + suffix, or
\* (prefix << rc_rice_param) + suffix, is an int
RemainingFits(p, rc_rice_param, suffix) ==
    \/ p < 3
    \/ /\ p - 3 + rc_rice_param <= 30
       /\ suffix <= INT_MAX - (2 ^ (p - 3) + 2) * 2 ^ rc_rice_param

\* the value of the expression when it is not an int and the arithmetic wraps
RemainingWrapped(p, rc_rice_param, suffix) ==
    IF p - 3 + rc_rice_param <= 30
    THEN ((2 ^ (p - 3) + 2) * 2 ^ rc_rice_param - INT_MAX - 1) + (suffix - INT_MAX - 1)
    ELSE (2 * 2 ^ rc_rice_param - INT_MAX - 1) + suffix

\* coeff_abs_level_remaining_decode without get_cabac_bypeek22 from the k-th bin on,
\* for a c_rice_param up to RICE_CAP: RemainingLoop where the value is an int; where
\* it is not, the signed overflow gives the wrapped value (ub[1] = 0) or ub[2]
RemainingLoopInt(k, rc_rice_param, ub) ==
    LET p == Ones(k, CABAC_MAX_BIN)
        ns == RemainingSuffixLen(p, rc_rice_param)
        suffix == BinsValue(k + p + 1, ns)
    IN  IF p = CABAC_MAX_BIN \/ RemainingFits(p, rc_rice_param, suffix)
        THEN RemainingLoop(k, rc_rice_param)
        ELSE [ val |-> IF ub[1] = 0 THEN RemainingWrapped(p, rc_rice_param, suffix)
                       ELSE ub[2],
               n |-> p + 1 + ns, prefix |-> p, err |-> FALSE ]

\* the bins the two decoders are run on: a run of 1 bins of every length up to
\* CABAC_MAX_BIN, a 0 bin, then a cycle; and 1 bins alone
RemStreams ==
    { [ head |-> Unary(p, p + 1), cyc |-> c ] :
        << p, c >> \in (0 .. CABAC_MAX_BIN) \X { c \in BinSeqs(2) : Primitive(c) } }

\* one remainder decoded by coeff_abs_level_remaining_decode without
\* get_cabac_bypeek22 and by coeff_abs_level_remaining_decode_alt1 from the same bin
remaining_decode ==
    /\ pc = "rem_entry"
    /\ \E rc_rice_param \in 0 .. RICE_CAP :
         LET p == Ones(0, CABAC_MAX_BIN)
             suffix == BinsValue(p + 1, RemainingSuffixLen(p, rc_rice_param))
             fits == p = CABAC_MAX_BIN \/ RemainingFits(p, rc_rice_param, suffix)
         IN  \E ub \in (IF fits THEN { << >> } ELSE UBOutcomes) :
               /\ obs' = [ step |-> "rem", from |-> bpos, k |-> rc_rice_param,
                           overflow |-> ~fits,
                           loop |-> RemainingLoopInt(0, rc_rice_param, ub),
                           peek |-> RemainingPeek(0, rc_rice_param) ]
               /\ bpos' = Skip(RemainingLoopInt(0, rc_rice_param, ub).n)
    /\ pc' = "rem_done"
    /\ UNCHANGED << v4l2vars, ctbvars, stat_coeff, bins, tu, rc, coeffs, mvd >>

InitRem ==
    /\ CtbIdle
    /\ V4l2Idle
    /\ pc = "rem_entry"
    /\ bins \in RemStreams
    /\ bpos = 1
    /\ stat_coeff = ZeroStat
    /\ tu = NoTu
    /\ rc = NoRc
    /\ coeffs = << >>
    /\ obs = NoObs
    /\ mvd = NoMvd

NextRem == remaining_decode

SpecRem == InitRem /\ [][NextRem]_vars

(* ------------------------------------------------------------------ *)
(* update_rice on its own                                               *)
(* ------------------------------------------------------------------ *)
\* the largest value of a uint8_t
UINT8_MAX == 255

\* the ARM version as it is written: t = coeff LSR shift, t2 = -1 when t is 0 and 0
\* otherwise, cmn sets the carry when t + 3 does not fit 32 bits, which no
\* remainder below 2^31 gives, adc adds t2 and the carry, usat clamps to 0 .. 255
update_rice_arm(stat, last_coeff_abs_level_remaining, c_rice_param) ==
    LET t == last_coeff_abs_level_remaining \div (2 ^ c_rice_param)
        t2 == IF t # 0 THEN 0 ELSE -1
        carry == 0
        sum == stat + t2 + carry
    IN  IF sum < 0 THEN 0 ELSE IF sum > UINT8_MAX THEN UINT8_MAX ELSE sum

\* update_rice as the rule reads: one up at 3 or more, one down for a remainder of 0
\* with a parameter above 0
update_rice_as_stated(stat, last_coeff_abs_level_remaining, c_rice_param) ==
    LET x == last_coeff_abs_level_remaining \div (2 ^ c_rice_param)
    IN  IF x >= 3 THEN stat + 1
        ELSE IF c_rice_param > 0 /\ last_coeff_abs_level_remaining = 0 THEN stat - 1
        ELSE stat

\* the shifts update_rice is run with: the one of the callers, *stat_coeff >> 2, and
\* the least and the largest whose power of two is an int
MaxRiceShift == 30

RiceShifts(stat) ==
    { 0, 1, 2, MaxRiceShift } \cup (IF stat \div 4 <= MaxRiceShift THEN { stat \div 4 } ELSE {})

\* the remainders update_rice is run with for a shift k: those next to 1 << k and to
\* 3 << k
RiceInputs(k) ==
    { 0, 1, 2, 3, 2 ^ k - 1, 2 ^ k }
    \cup (IF k < MaxRiceShift THEN { 2 * 2 ^ k, 3 * 2 ^ k - 1, 3 * 2 ^ k } ELSE {})

\* one call of update_rice on an entry of stat_coeff
update_rice_call ==
    /\ pc = "rice_entry"
    /\ \E idx \in RiceIdxs :
         \E k \in RiceShifts(stat_coeff[idx]) :
           \E r \in RiceInputs(k) :
             /\ stat_coeff' = [stat_coeff EXCEPT ![idx] = update_rice(stat_coeff[idx], r, k)]
             /\ obs' = [ step |-> "rice", idx |-> idx, stat |-> stat_coeff[idx], r |-> r,
                         k |-> k, arm |-> update_rice_arm(stat_coeff[idx], r, k) ]
    /\ pc' = "rice_done"
    /\ UNCHANGED << v4l2vars, ctbvars, bins, bpos, tu, rc, coeffs, mvd >>

InitRice ==
    /\ CtbIdle
    /\ V4l2Idle
    /\ pc = "rice_entry"
    /\ bins = [ head |-> << >>, cyc |-> << 0 >> ]
    /\ bpos = 1
    /\ stat_coeff \in { [i \in 0 .. 3 |-> s] : s \in 0 .. UINT8_MAX }
    /\ tu = NoTu
    /\ rc = NoRc
    /\ coeffs = << >>
    /\ obs = NoObs
    /\ mvd = NoMvd

NextRice == update_rice_call

SpecRice == InitRice /\ [][NextRice]_vars

(* ------------------------------------------------------------------ *)
(* Properties                                                           *)
(* ------------------------------------------------------------------ *)
\* the table cabac_init_state computes from the current slice header
FreshTable == cabac_init_state(sh, DOMAIN lc_cabac_state).tab

AtRowStart == ctb_addr_ts % ctb_width = 0

\* ff_hevc_cabac_init has just returned
Inited == pc = "inited"

\* ff_hevc_cabac_init has just returned and its last call was load_states
Loaded == Inited /\ Len(calls) > 0 /\ calls[Len(calls)] = "load_states"

\* ff_hevc_save_states has just returned
SaveReturned == pc \in {"header", "init", "done"}

WppOn == entropy_coding_sync_enabled_flag = 1

\* C1: with WPP on and ctb_width >= 2, right after a save that fires the snapshot
\* equals the working table, and right after a load at a row start the working table
\* equals the snapshot, which still is the table that save copied, whatever bins were
\* decoded since.
C1_SaveLoadRoundTrip ==
    (WppOn /\ ctb_width >= 2) =>
        /\ (SaveReturned /\ save_fired) => cabac_state = lc_cabac_state
        /\ (Loaded /\ AtRowStart) =>
               (lc_cabac_state = cabac_state /\ lc_cabac_state = snap_src)

\* a load at a row start after a bin was decoded between the save and the load
C1_Witness == WppOn /\ ctb_width >= 2 /\ Loaded /\ AtRowStart /\ dirty

\* C2: whenever ff_hevc_cabac_init loads the snapshot, the snapshot was written in
\* this picture by the save that followed the second CTB of the row just before
\* (ff_hevc_save_states(s, ctb_addr_ts - ctb_width + 2)), and by no earlier one.
C2_HappensBefore ==
    Loaded => (snap_pic = pic /\ snap_ts = ctb_addr_ts - ctb_width + 2)

\* a load at the start of the third row of the second picture
C2_Witness == Loaded /\ pic = 2 /\ ctb_addr_ts = 2 * ctb_width

\* C3: ff_hevc_save_states(s, ts) overwrites the snapshot with the working table
\* exactly when WPP is on and (ts % ctb_width == 2, or ctb_width == 2 and
\* ts % ctb_width == 0); otherwise the snapshot is unchanged; the working table is
\* never modified.
C3_SaveRule ==
    [][ (pc \in {"inited", "decode"} /\ pc' \notin {"inited", "decode"}) =>
            LET ts == ctb_addr_ts + 1
            IN  /\ cabac_state' =
                       (IF WppOn /\ (ts % ctb_width = 2
                                     \/ (ctb_width = 2 /\ ts % ctb_width = 0))
                        THEN lc_cabac_state ELSE cabac_state)
                /\ lc_cabac_state' = lc_cabac_state ]_vars

\* a save that fired in a picture two CTBs wide and changed the snapshot
C3_Witness ==
    SaveReturned /\ save_fired /\ ctb_width = 2 /\ dirty = FALSE /\ nbins > 0
    /\ cabac_state # FreshTable

\* C4 as claimed: after ff_hevc_cabac_init with WPP on, at column 0 and not at the
\* first CTB of the picture, the working table is the snapshot if ctb_width > 1 and
\* the fresh table if ctb_width == 1, slice segment start or not.
C4_LoadRule_Claimed ==
    (Inited /\ WppOn /\ AtRowStart /\ ctb_addr_ts # 0) =>
        lc_cabac_state = (IF ctb_width > 1 THEN cabac_state ELSE FreshTable)

\* C4 amended: the same, except that at the first CTB of an independent slice segment
\* the working table is the fresh table.
C4_LoadRule ==
    (Inited /\ WppOn /\ AtRowStart /\ ctb_addr_ts # 0) =>
        lc_cabac_state =
            (IF ctb_width = 1
                \/ (AtSliceStart(ctb_addr_ts) /\ sh.dependent_slice_segment_flag = 0)
             THEN FreshTable ELSE cabac_state)

\* an independent slice segment starts a row and the snapshot is not the fresh table
C4_Witness ==
    /\ Inited /\ WppOn /\ AtRowStart /\ ctb_addr_ts # 0 /\ ctb_width > 1
    /\ AtSliceStart(ctb_addr_ts) /\ sh.dependent_slice_segment_flag = 0
    /\ cabac_state # lc_cabac_state

\* C5 as claimed: after ff_hevc_cabac_init for a CTB whose tile_id differs from the
\* previous CTB's, the working table is the fresh table and stat_coeff is all zero,
\* whatever the other flags are.
C5_TileReset_Claimed ==
    (Inited /\ ctb_addr_ts > 0 /\ TileChange(ctb_addr_ts)) =>
        (lc_cabac_state = FreshTable /\ stat_coeff = ZeroStat)

\* e is found in cs at or after position from
RECURSIVE FindFrom(_, _, _)
FindFrom(cs, e, from) ==
    IF from > Len(cs) THEN 0
    ELSE IF cs[from] = e THEN from
    ELSE FindFrom(cs, e, from + 1)

\* a, b, c occur in cs in this order
InOrder(cs, a, b, c) ==
    LET i == FindFrom(cs, a, 1)
        j == IF i = 0 THEN 0 ELSE FindFrom(cs, b, i + 1)
        k == IF j = 0 THEN 0 ELSE FindFrom(cs, c, j + 1)
    IN  k # 0

\* C6 as claimed: at a tile start inside a slice segment ff_hevc_cabac_init reads a
\* terminate bin, then calls cabac_init_decoder, then reinitialises the contexts,
\* for every threads_number.
C6_TileSequence_Claimed ==
    (Inited /\ ~AtSliceStart(ctb_addr_ts) /\ TileChange(ctb_addr_ts)) =>
        InOrder(calls, "get_cabac_terminate", "cabac_init_decoder", "cabac_init_state")

\* C6 amended: at a tile start inside a slice segment ff_hevc_cabac_init first
\* reinitialises the engine, by cabac_reinit when threads_number == 1 and by
\* cabac_init_decoder otherwise, then reinitialises the contexts; no terminate bin is
\* read before them (one is read only afterwards, at a WPP row start).
C6_TileSequence ==
    (Inited /\ ~AtSliceStart(ctb_addr_ts) /\ TileChange(ctb_addr_ts)) =>
        /\ Len(calls) >= 2
        /\ calls[1] = (IF threads_number = 1 THEN "cabac_reinit" ELSE "cabac_init_decoder")
        /\ calls[2] = "cabac_init_state"
        /\ \A i \in 1 .. Len(calls) :
               calls[i] = "get_cabac_terminate" => (i = 3 /\ WppOn /\ AtRowStart)

\* a tile start inside a slice segment, decoded on one thread, off a WPP row start
C6_Witness ==
    /\ Inited /\ ~AtSliceStart(ctb_addr_ts) /\ TileChange(ctb_addr_ts)
    /\ threads_number = 1 /\ calls = << "cabac_reinit", "cabac_init_state" >>

\* the step is ff_hevc_cabac_init at the first CTB of a slice segment
SliceStartStep == pc = "init" /\ pc' = "inited" /\ AtSliceStart(ctb_addr_ts)

\* C7 as claimed: at the first CTB of an independent slice segment the working table
\* becomes the fresh table and stat_coeff zero; at the first CTB of a dependent one
\* neither is reinitialised: stat_coeff is unchanged and the table is unchanged or,
\* at a WPP row start, the snapshot.
C7_SliceStart_Claimed ==
    [][ SliceStartStep =>
            IF sh.dependent_slice_segment_flag = 0
            THEN lc_cabac_state' = FreshTable /\ stat_coeff' = ZeroStat
            ELSE /\ stat_coeff' = stat_coeff
                 /\ \/ lc_cabac_state' = lc_cabac_state
                    \/ (WppOn /\ AtRowStart /\ lc_cabac_state' = cabac_state) ]_vars

\* C7 amended: a dependent slice segment is reinitialised too when its first CTB
\* starts a tile or when WPP is on with ctb_width == 1; otherwise stat_coeff and the
\* table are inherited; and at a WPP row start with ctb_width > 1 the table of a
\* dependent segment is the snapshot, reinitialised or not.
C7_SliceStart ==
    [][ SliceStartStep =>
            LET dep    == sh.dependent_slice_segment_flag = 1
                reinit == \/ ~dep
                          \/ TileChange(ctb_addr_ts)
                          \/ (sh.first_slice_in_pic_flag = 0 /\ WppOn /\ ctb_width = 1)
                load   == /\ dep
                          /\ sh.first_slice_in_pic_flag = 0
                          /\ WppOn /\ AtRowStart /\ ctb_width > 1
            IN  /\ stat_coeff' = (IF reinit THEN ZeroStat ELSE stat_coeff)
                /\ lc_cabac_state' =
                       (IF load THEN cabac_state
                        ELSE IF reinit THEN FreshTable
                        ELSE lc_cabac_state) ]_vars

\* a dependent slice segment that starts a tile has been reinitialised
C7_Witness ==
    /\ Inited /\ AtSliceStart(ctb_addr_ts) /\ sh.dependent_slice_segment_flag = 1
    /\ TileChange(ctb_addr_ts)
    /\ calls = << "cabac_init_decoder", "cabac_init_state" >>
    /\ nbins > 0

\* the context state of the claim: |pre|, saturated to 124 + parity
AbsState(init_value, slice_qp) ==
    LET m   == (init_value \div 16) * 5 - 45
        n   == ((init_value % 16) * 8) - 16
        pre == 2 * (((m * av_clip(slice_qp, 0, 51)) \div 16) + n) - 127
        a   == IF pre < 0 THEN -pre ELSE pre
    IN  IF a > 124 THEN 124 + (a % 2) ELSE a

\* the context state with a negative pre mapped to -pre - 1
ComplState(init_value, slice_qp) ==
    LET m   == (init_value \div 16) * 5 - 45
        n   == ((init_value % 16) * 8) - 16
        pre == 2 * (((m * av_clip(slice_qp, 0, 51)) \div 16) + n) - 127
        a   == IF pre < 0 THEN -pre - 1 ELSE pre
    IN  IF a > 124 THEN 124 + (a % 2) ELSE a

\* C8 as claimed: cabac_init_state stores |pre| (saturated to 124 + (pre & 1) above
\* 124) for every context, init type and slice_qp.
C8_InitValue_Claimed ==
    (Inited /\ calls = << "cabac_init_state" >>) =>
        \A i \in DOMAIN lc_cabac_state :
            lc_cabac_state[i] = AbsState(InitValue(init_type, i), sh.slice_qp)

\* C8 amended: a negative pre is mapped to -pre - 1 (its one's complement), not to
\* its absolute value; the rest is as claimed.
C8_InitValue ==
    (Inited /\ calls = << "cabac_init_state" >>) =>
        \A i \in DOMAIN lc_cabac_state :
            lc_cabac_state[i] = ComplState(InitValue(init_type, i), sh.slice_qp)

\* sao_merge_flag (init value 153, pre = -15) is initialised to 14, slice_qp below 0
C8_Witness ==
    /\ Inited /\ calls = << "cabac_init_state" >> /\ sh.slice_qp < 0
    /\ lc_cabac_state[0] = 14

\* the init type the slice type and cabac_init_flag select
ClaimedInitType ==
    CASE sh.slice_type = I_SLICE -> 0
      [] sh.slice_type = P_SLICE -> (IF sh.cabac_init_flag # 0 THEN 2 ELSE 1)
      [] sh.slice_type = B_SLICE -> (IF sh.cabac_init_flag # 0 THEN 1 ELSE 2)

\* C9: cabac_init_state uses init table 0 for I slices whatever cabac_init_flag is,
\* 2 (flag set) or 1 for P slices, 1 (flag set) or 2 for B slices; the index is in
\* {0,1,2} and the table is built from that row.
C9_InitType ==
    (Inited /\ calls = << "cabac_init_state" >>) =>
        /\ init_type \in {0, 1, 2}
        /\ init_type = ClaimedInitType
        /\ lc_cabac_state[1] = ComplState(init_values(ClaimedInitType)[2], sh.slice_qp)

\* an I slice with cabac_init_flag set
C9_Witness ==
    /\ Inited /\ calls = << "cabac_init_state" >>
    /\ sh.slice_type = I_SLICE /\ sh.cabac_init_flag = 1 /\ init_type = 0

\* C10: every entry of the working table and of the snapshot is in [0,125], after
\* cabac_init_state for any slice type, cabac_init_flag and slice_qp and after every
\* later save and load.
C10_StateBound ==
    \A i \in DOMAIN lc_cabac_state :
        /\ lc_cabac_state[i] \in 0 .. 125
        /\ cabac_state[i] \in 0 .. 125

\* a saturated entry, initialised under a slice_qp above 51, saved and loaded back
C10_Witness ==
    /\ calls = << "load_states" >> /\ save_fired /\ sh.slice_qp > 51
    /\ lc_cabac_state = cabac_state
    /\ \E i \in DOMAIN lc_cabac_state : lc_cabac_state[i] = 124

\* the store has returned
Stored == pc = "res_stored"

\* the value the specification gives: the exact product, shifted, rounded, clamped.
\* A product that is not an int is at least 2^31 in magnitude, and the shift is at
\* most 15, so the exact value is beyond 16 bits and clamps by the sign of the level
ExactCoeff(level, scale, scale_m, shift) ==
    IF MulFits(level, scale * scale_m)
    THEN LET s == Sar(level * (scale * scale_m), shift)
         IN  IF s = INT_MAX THEN 32767 ELSE sat16(Sar(s + 1, 1))
    ELSE IF level > 0 THEN 32767 ELSE -32768

\* C11 (as claimed): every coefficient written is
\* clamp((((level*scale*scale_m) >> shift) + 1) >> 1, -32768, 32767) of the exact product
C11_Saturation_Claimed ==
    Stored =>
        Coeff(coeffs, obs.t_offset) = ExactCoeff(obs.level, rc.scale, obs.scale_m, rc.shift)

\* C13: under cu_transquant_bypass_flag the decoder has scale 2, shift 0 and scaling
\* factor 1 at the DC and elsewhere, and a level of 16 bits is written unchanged
C13_BypassIdentity ==
    tu.cu_transquant_bypass_flag = 1 /\ Stored =>
        /\ rc.scale = 2 /\ rc.shift = 0 /\ obs.scale_m = 1
        /\ (obs.level \in -32768 .. 32767 => Coeff(coeffs, obs.t_offset) = obs.level)

C13_Witness ==
    /\ Stored /\ tu.cu_transquant_bypass_flag = 1 /\ tu.scaling_list_enable_flag = 1
    /\ obs.level = -32768 /\ obs.t_offset = 0 /\ Coeff(coeffs, 0) = -32768

\* the single-DC block: a 4x4 luma intra block that is neither transquant-bypass nor
\* transform-skip, flat scaling, 8 bits, qp 26, last position (0,0), and the one level
\* decoded is +1 (greater1 bin 0, sign bin 0); the subblock loop has run
SingleDc ==
    /\ pc = "res_xform"
    /\ obs.step = "sub"
    /\ tu.log2_trafo_size = 2 /\ tu.c_idx = 0 /\ tu.pred_mode = MODE_INTRA
    /\ tu.cu_transquant_bypass_flag = 0 /\ rc.trans_skip_or_bypass = 0
    /\ tu.scaling_list_enable_flag = 0 /\ rc.dc_scale = 16
    /\ tu.bit_depth = 8 /\ DequantQp(tu) = 26
    /\ rc.last_significant_coeff_x = 0 /\ rc.last_significant_coeff_y = 0
    /\ obs.gt1_inc # << >> /\ obs.gt2_inc = << >>
    /\ obs.levels = (0 :> 1)

\* C12 (as amended): in the single-DC block at qp 26 the dequantiser has scale 51 and
\* shift 0, coeffs[0] is 408 and the other 15 entries of the buffer are 0
C12_SingleDc ==
    SingleDc => /\ rc.scale = 51
                /\ rc.shift = 0
                /\ Coeff(coeffs, 0) = 408
                /\ \A o \in 1 .. 15 : Coeff(coeffs, o) = 0

C12_Witness == SingleDc /\ Coeff(coeffs, 0) = 408 /\ bpos > Len(bins.head)

\* C12 (as stated): in the single-DC block at qp 26 the dequantiser has scale 40 and
\* shift 2, and coeffs[0] is 80
C12_SingleDc_Claimed ==
    SingleDc => /\ rc.scale = 40
                /\ rc.shift = 2
                /\ Coeff(coeffs, 0) = 80
                /\ \A o \in 1 .. 15 : Coeff(coeffs, o) = 0

\* the position of scan position p of the block, by the tables the loop walks with
ScanPosAt(p) ==
    LET tabs == ScanTables(tu.scan_idx, 2 ^ tu.log2_trafo_size)
    IN  << tabs.x_cg[p \div 16] * 4 + tabs.x_off[p % 16],
           tabs.y_cg[p \div 16] * 4 + tabs.y_off[p % 16] >>

\* the subblocks visited so far are num_last_subset, num_last_subset - 1, ... in that
\* order, each once; num_last_subset is the scan position of the last significant
\* coefficient shifted right by 4; after the loop all of them down to 0 were visited
Visits ==
    pc \in {"res_sub", "res_xform", "res_done"} =>
        /\ obs.step = "last" =>
               \E p \in 0 .. 4 ^ tu.log2_trafo_size - 1 :
                   /\ ScanPosAt(p) = << rc.last_significant_coeff_x,
                                        rc.last_significant_coeff_y >>
                   /\ rc.num_last_subset = p \div 16
        /\ Len(obs.visited) <= rc.num_last_subset + 1
        /\ \A j \in 1 .. Len(obs.visited) : obs.visited[j] = rc.num_last_subset - (j - 1)
        /\ pc = "res_sub" => rc.i = rc.num_last_subset - Len(obs.visited) /\ rc.i >= 0
        /\ pc # "res_sub" => Len(obs.visited) = rc.num_last_subset + 1

\* C14: for every decoded last position the subblock loop visits the subblocks
\* num_last_subset, num_last_subset - 1, ..., 0, each once and in that order, where
\* num_last_subset is the scan position of the last significant coefficient shifted
\* right by 4, and the loop ends
C14_SubblockScan == []Visits /\ <>(pc = "res_done")

C14_Witness ==
    /\ pc = "res_done"
    /\ tu.log2_trafo_size = 4
    /\ rc.last_significant_coeff_x = 5 /\ rc.last_significant_coeff_y = 8
    /\ obs.visited = << 7, 6, 5, 4, 3, 2, 1, 0 >>

\* the sum of the values of a function on 0 .. n - 1
RECURSIVE SumTo(_, _)
SumTo(f, n) == IF n = 0 THEN 0 ELSE f[n - 1] + SumTo(f, n - 1)

\* a subblock of two or more significant coefficients was decoded and sign hiding
\* applies to it
HiddenSubblock ==
    /\ obs.step = "sub"
    /\ Len(obs.idx) >= 2
    /\ SignHidden(tu, rc, obs.idx) = 1

\* C15: when sign hiding applies to a subblock of n significant coefficients, n - 1
\* sign bins are read, and the level at the lowest scan position of the subblock is
\* negative exactly when the sum of the absolute levels of the subblock is odd
C15_HiddenSign ==
    HiddenSubblock =>
        LET n == Len(obs.idx)
        IN  /\ obs.nsign = n - 1
            /\ \A m \in 1 .. n - 1 : obs.idx[m] > obs.idx[n]
            /\ obs.stores[n - 1].level # 0
            /\ obs.stores[n - 1].level < 0 <=> SumTo(obs.abs, n) % 2 = 1

\* an odd sum: the level at the lowest scan position is negative though no sign bin
\* was read for it
C15_Witness ==
    /\ HiddenSubblock
    /\ SumTo(obs.abs, Len(obs.idx)) % 2 = 1
    /\ obs.stores[Len(obs.idx) - 1].level < 0
    /\ obs.nsign = Len(obs.idx) - 1
    /\ \E m \in 0 .. Len(obs.idx) - 2 : obs.stores[m].level > 0

\* the block was decoded and the general inverse transform is the one dispatched
GeneralTransform == pc = "res_done" /\ obs.transform \in {"idct_dc", "idct"}

\* C18: when the general inverse transform is dispatched, idct_dc is chosen exactly
\* when the last position is (0,0); otherwise col_limit is last_x + last_y + 4, capped
\* to 4 when max(last_x, last_y) < 4, to 8 when it is < 8 and to 24 when it is < 12,
\* and every coefficient the block wrote is in a column below col_limit
C18_ColLimit ==
    GeneralTransform =>
        LET x == rc.last_significant_coeff_x
            y == rc.last_significant_coeff_y
            sum == x + y + 4
            cap == IF x < 4 /\ y < 4 THEN 4
                   ELSE IF x < 8 /\ y < 8 THEN 8
                   ELSE IF x < 12 /\ y < 12 THEN 24
                   ELSE sum
        IN  /\ obs.transform = "idct_dc" <=> (x = 0 /\ y = 0)
            /\ obs.transform = "idct" =>
                   /\ obs.col_limit = (IF cap < sum THEN cap ELSE sum)
                   /\ \A o \in DOMAIN coeffs : o % 2 ^ tu.log2_trafo_size < obs.col_limit

\* a 16x16 block whose col_limit is the cap 8 and which wrote a coefficient in column 7
C18_Witness ==
    /\ GeneralTransform
    /\ obs.transform = "idct"
    /\ tu.log2_trafo_size = 4
    /\ rc.last_significant_coeff_x = 5 /\ rc.last_significant_coeff_y = 5
    /\ obs.col_limit = 8
    /\ \E o \in DOMAIN coeffs : o % 16 = 7

\* significant_coeff_group_flag of a neighbour subblock, 0 outside the block
NeighbourFlag(x, y) ==
    IF x < 2 ^ (tu.log2_trafo_size - 2) /\ y < 2 ^ (tu.log2_trafo_size - 2)
       /\ << x, y >> \in rc.significant_coeff_group_flag
    THEN 1 ELSE 0

\* C19: no sig_group bin is decoded for the subblock of the last significant
\* coefficient nor for subblock 0, and their flag is 1; for every other visited subblock
\* one bin is decoded, with context min(flag of the right neighbour + flag of the
\* neighbour below, 1) + (2 for chroma), a neighbour outside the block counting as 0
C19_SigGroup ==
    obs.step = "sub" =>
        IF obs.i = rc.num_last_subset \/ obs.i = 0
        THEN /\ ~obs.group_coded
             /\ obs.group_flag = 1
             /\ << obs.x_cg, obs.y_cg >> \in rc.significant_coeff_group_flag
        ELSE /\ obs.group_coded
             /\ obs.nbins >= 1
             /\ obs.group_flag = 0 => obs.nbins = 1 /\ obs.idx = << >>
             /\ (obs.group_flag = 1) = (<< obs.x_cg, obs.y_cg >> \in rc.significant_coeff_group_flag)
             /\ obs.group_inc =
                    (IF NeighbourFlag(obs.x_cg + 1, obs.y_cg)
                        + NeighbourFlag(obs.x_cg, obs.y_cg + 1) >= 1 THEN 1 ELSE 0)
                    + (IF tu.c_idx > 0 THEN 2 ELSE 0)

\* a chroma subblock whose right and lower neighbours both have their flag set
C19_Witness ==
    /\ obs.step = "sub"
    /\ obs.group_coded
    /\ tu.c_idx > 0
    /\ NeighbourFlag(obs.x_cg + 1, obs.y_cg) = 1
    /\ NeighbourFlag(obs.x_cg, obs.y_cg + 1) = 1
    /\ obs.group_inc = 3

\* a subblock of a block with the flat significance context was decoded
FlatSubblock == obs.step = "sub" /\ FlatSigCtx(tu, rc.trans_skip_or_bypass)

\* C20 (as amended): with transform_skip_context_enabled_flag set and the block
\* transform-skip or transquant-bypass, every sig_coeff_flag of the block, positions
\* 15..1 and position 0 alike, is decoded with context 42 for luma and 43 for chroma
\* counted from the first significant_coeff_flag context
C20_FlatSigCtx ==
    FlatSubblock =>
        \A e \in obs.sig_ctx : e[2] = (IF tu.c_idx = 0 THEN 42 ELSE 43)

\* flags of position 0 and of position 15 were decoded in a chroma block
C20_Witness ==
    /\ FlatSubblock
    /\ tu.c_idx > 0
    /\ << 0, 43 >> \in obs.sig_ctx
    /\ << 15, 43 >> \in obs.sig_ctx

\* C20 (as stated): the context is 40 for luma and 41 for chroma
C20_FlatSigCtx_Claimed ==
    FlatSubblock =>
        \A e \in obs.sig_ctx : e[2] = (IF tu.c_idx = 0 THEN 40 ELSE 41)


\* the q-th bin of the stream, counted from 1 at its start
StreamBin(q) ==
    IF q <= Len(bins.head) THEN bins.head[q]
    ELSE bins.cyc[((q - Len(bins.head) - 1) % Len(bins.cyc)) + 1]

\* the k-th order Exp-Golomb code that starts at bin q of the stream: its value and
\* its length
RECURSIVE ExpGolomb(_, _)
ExpGolomb(q, k) ==
    IF StreamBin(q) = 1
    THEN LET r == ExpGolomb(q + 1, k + 1)
         IN  [ val |-> 2 ^ k + r.val, len |-> 1 + r.len ]
    ELSE [ val |-> IF k = 0 THEN 0
                   ELSE LET v[j \in 0 .. k] ==
                                IF j = 0 THEN 0 ELSE 2 * v[j - 1] + StreamBin(q + j)
                        IN  v[k],
           len |-> 1 + k ]

\* the value of component c (1 is x, 2 is y) after ff_hevc_hls_mvd_coding
MvdValue(c) == IF c = 1 THEN mvd.x ELSE mvd.y

Abs(v) == IF v < 0 THEN 0 - v ELSE v

\* the stream position of the first bin after the flags of component c
MvdFrom(c) == obs.from + obs.start[c]

\* the remainder of component c starts with CABAC_MAX_BIN - 1 bins that are 1
MvdCapped(c) ==
    /\ obs.g[c] = 2
    /\ \A j \in 0 .. CABAC_MAX_BIN - 2 : StreamBin(MvdFrom(c) + j) = 1

C16_ErrorStops_Claimed ==
    pc = "res_done" => ~(rc.err /\ obs.transform_add)


\* C21: in a subblock with significant coefficients sign_hidden is 1 exactly when
\* sign_data_hiding_flag is set, the CU is not transquant bypass, the block is not an
\* intra one with implicit RDPCM, transform skip or bypass and prediction mode 10 or
\* 26, explicit_rdpcm_flag is 0 and the first listed scan position is more than 3
\* above the last listed one; with one coefficient it is 0 and the sign bin is read
C21_SignHiddenApplies ==
    obs.step = "sub" /\ Len(obs.idx) >= 1 =>
        /\ (obs.sign_hidden = 1) =
               /\ tu.sign_data_hiding_flag = 1
               /\ tu.cu_transquant_bypass_flag = 0
               /\ ~ /\ tu.pred_mode = MODE_INTRA
                    /\ tu.implicit_rdpcm_enabled_flag = 1
                    /\ rc.trans_skip_or_bypass = 1
                    /\ tu.pred_mode_intra \in {10, 26}
               /\ rc.explicit_rdpcm_flag = 0
               /\ obs.idx[1] - obs.idx[Len(obs.idx)] > 3
        /\ obs.sign_hidden \in {0, 1}
        /\ obs.nsign = Len(obs.idx) - obs.sign_hidden
        /\ Len(obs.idx) = 1 => obs.sign_hidden = 0

\* the first and the last coefficient of a subblock are 4 scan positions apart, the
\* least distance at which the sign is hidden
C21_Witness ==
    /\ obs.step = "sub"
    /\ Len(obs.idx) >= 2
    /\ obs.idx[1] - obs.idx[Len(obs.idx)] = 4
    /\ obs.sign_hidden = 1
    /\ obs.nsign = Len(obs.idx) - 1


(* ------------------------------------------------------------------ *)
(* The Rice parameter within a subblock                                 *)
(* ------------------------------------------------------------------ *)
\* the block decodes with rice adaptation
RiceAdapt == tu.persistent_rice_adaptation_enabled_flag = 1

\* C22: the Rice parameter passed to the remainder decoder is at most 4 in every
\* subblock of a block without persistent_rice_adaptation_enabled_flag, where it
\* starts at 0; with the flag it never falls and grows by at most one per remainder,
\* with no upper limit
C22_RiceBound ==
    obs.step = "sub" =>
        /\ \A j \in 1 .. Len(obs.rices) : obs.rices[j] >= 0
        /\ \A j \in 2 .. Len(obs.rices) :
              obs.rices[j] \in { obs.rices[j - 1], obs.rices[j - 1] + 1 }
        /\ ~RiceAdapt => \A j \in 1 .. Len(obs.rices) : obs.rices[j] <= 4
        /\ ~RiceAdapt /\ obs.rices # << >> => obs.rices[1] = 0

\* a block without rice adaptation has a remainder above 3 << 4 decoded with
\* parameter 4, and the next remainder is decoded with 4 again
C22_Witness ==
    /\ obs.step = "sub"
    /\ ~RiceAdapt
    /\ \E j \in 1 .. Len(obs.rices) - 1 :
          /\ obs.rices[j] = 4
          /\ obs.base[obs.which[j]] + obs.rems[j] > 48
          /\ obs.rices[j + 1] = 4

\* C22 as stated: the Rice parameter is at most 4 with the flag off and with it on
C22_RiceBound_Claimed ==
    obs.step = "sub" => \A j \in 1 .. Len(obs.rices) : obs.rices[j] <= 4


\* C23: within a subblock, after a remainder decoded with parameter k for a
\* coefficient of base level b, the parameter of the next remainder is k + 1 exactly
\* when b plus the remainder is greater than 3 << k (and, without rice adaptation,
\* k is below 4), and k otherwise
C23_RiceStep ==
    obs.step = "sub" =>
        \A j \in 1 .. Len(obs.rices) - 1 :
            LET k == obs.rices[j]
                trans_coeff_level == obs.base[obs.which[j]] + obs.rems[j]
            IN  obs.rices[j + 1] =
                    IF trans_coeff_level > 3 * 2 ^ k /\ (RiceAdapt \/ k < 4)
                    THEN k + 1 ELSE k

\* a remainder that is not above 3 << k on its own raises the parameter, because it
\* is with the base level of its coefficient
C23_Witness ==
    /\ obs.step = "sub"
    /\ \E j \in 1 .. Len(obs.rices) - 1 :
          /\ obs.rems[j] <= 3 * 2 ^ obs.rices[j]
          /\ obs.base[obs.which[j]] + obs.rems[j] > 3 * 2 ^ obs.rices[j]
          /\ obs.rices[j + 1] = obs.rices[j] + 1

\* C23 as stated: the comparison uses the remainder alone
C23_RiceStep_Claimed ==
    obs.step = "sub" =>
        \A j \in 1 .. Len(obs.rices) - 1 :
            obs.rices[j + 1] =
                IF obs.rems[j] > 3 * 2 ^ obs.rices[j]
                THEN obs.rices[j] + 1 ELSE obs.rices[j]


(* ------------------------------------------------------------------ *)
(* update_rice                                                          *)
(* ------------------------------------------------------------------ *)
\* C24: update_rice with a remainder r and a parameter k counts stat_coeff one up when
\* r >> k is 3 or more, one down when k is above 0 and r is 0, and leaves it as it
\* is in every other case
C24_UpdateRule_Claimed ==
    obs.step = "rice" /\ obs.stat < UINT8_MAX =>
        stat_coeff[obs.idx] = update_rice_as_stated(obs.stat, obs.r, obs.k)

\* what update_rice does: one up, modulo 256, when r >> k is 3 or more; one down
\* when r >> k is 0 and stat_coeff is above 0; nothing otherwise
C24_UpdateRule_Code ==
    obs.step = "rice" =>
        LET x == obs.r \div 2 ^ obs.k
        IN  stat_coeff[obs.idx] =
                IF x >= 3 THEN (obs.stat + 1) % (UINT8_MAX + 1)
                ELSE IF x = 0 /\ obs.stat > 0 THEN obs.stat - 1
                ELSE obs.stat

\* a remainder of 1 with the callers' parameter 1 counts stat_coeff down
C24_Witness ==
    /\ obs.step = "rice"
    /\ obs.stat = 4 /\ obs.k = obs.stat \div 4 /\ obs.r = 1
    /\ stat_coeff[obs.idx] = 3

C25_FloorHolds ==
    obs.step = "rice" /\ obs.stat = 0 /\ obs.r \div 2 ^ obs.k = 0 => stat_coeff[obs.idx] = 0

\* the ARM version and the C version give the same stat_coeff
C25_ArmMatches_Claimed ==
    obs.step = "rice" => obs.arm = stat_coeff[obs.idx]


(* ------------------------------------------------------------------ *)
(* stat_coeff across a subblock                                         *)
(* ------------------------------------------------------------------ *)
\* C26: with persistent_rice_adaptation_enabled_flag the first remainder of a subblock
\* is decoded with k = stat_coeff[idx] >> 2, idx = (2 for luma, 0 for chroma) +
\* trans_skip_or_bypass; stat_coeff[idx] is updated once, from that remainder and
\* that k only, and not at all in a subblock without a remainder; the other three
\* entries keep their values; without the flag no entry changes and k starts at 0
C26_PersistentRice ==
    obs.step = "sub" =>
        LET idx == (IF tu.c_idx = 0 THEN 2 ELSE 0) + rc.trans_skip_or_bypass
            before == obs.stat
        IN  /\ \A i \in (0 .. 3) \ { idx } : stat_coeff[i] = before[i]
            /\ obs.rems = << >> => stat_coeff = before
            /\ ~RiceAdapt => stat_coeff = before
            /\ ~RiceAdapt /\ obs.rems # << >> => obs.rices[1] = 0
            /\ RiceAdapt /\ obs.rems # << >> =>
                  LET k == before[idx] \div 4
                      x == obs.rems[1] \div 2 ^ k
                  IN  /\ obs.rices[1] = k
                      /\ stat_coeff[idx] =
                            IF x >= 3 THEN before[idx] + 1
                            ELSE IF x = 0 /\ before[idx] > 0 THEN before[idx] - 1
                            ELSE before[idx]

\* a subblock with rice adaptation whose first remainder counts stat_coeff down and
\* whose second remainder, had it been used, would not have
C26_Witness ==
    /\ obs.step = "sub"
    /\ RiceAdapt
    /\ Len(obs.rems) >= 2
    /\ LET idx == (IF tu.c_idx = 0 THEN 2 ELSE 0) + rc.trans_skip_or_bypass
       IN  /\ stat_coeff[idx] = obs.stat[idx] - 1
           /\ obs.rems[2] \div 2 ^ obs.rices[2] > 0


(* ------------------------------------------------------------------ *)
(* The last significant position                                        *)
(* ------------------------------------------------------------------ *)
\* the truncated-unary code that starts at bin q of the stream: the 1 bins in a row,
\* counted up to max
UnaryAt(q, max) ==
    CHOOSE p \in 0 .. max :
        /\ \A j \in 0 .. p - 1 : StreamBin(q + j) = 1
        /\ p = max \/ StreamBin(q + p) = 0

\* the bins of a truncated-unary code of value p
UnaryLen(p, max) == IF p < max THEN p + 1 ELSE p

\* the n bins from bin q of the stream on as a number, first bin most significant
StreamValue(q, n) ==
    LET v[j \in 0 .. n] == IF j = 0 THEN 0 ELSE 2 * v[j - 1] + StreamBin(q + j - 1)
    IN  v[n]

\* the last position the bins from obs.from on stand for: prefix x, prefix y, then
\* the suffix of x, then the suffix of y
LastCoded ==
    LET max == 2 * tu.log2_trafo_size - 1
        px == UnaryAt(obs.from, max)
        qy == obs.from + UnaryLen(px, max)
        py == UnaryAt(qy, max)
        qsx == qy + UnaryLen(py, max)
        lx == IF px > 3 THEN (px \div 2) - 1 ELSE 0
        ly == IF py > 3 THEN (py \div 2) - 1 ELSE 0
        sx == StreamValue(qsx, lx)
        sy == StreamValue(qsx + lx, ly)
    IN  [ px |-> px, py |-> py, lx |-> lx, ly |-> ly,
          x |-> IF px > 3 THEN 2 ^ ((px \div 2) - 1) * (2 + (px % 2)) + sx ELSE px,
          y |-> IF py > 3 THEN 2 ^ ((py \div 2) - 1) * (2 + (py % 2)) + sy ELSE py,
          len |-> UnaryLen(px, max) + UnaryLen(py, max) + lx + ly ]

\* C27: for a block of log2 size L in 2 .. 5 each prefix of the last position is at
\* most 2L - 1; a suffix of (prefix >> 1) - 1 bypass bins is read only for a prefix
\* above 3; the coordinate is (1 << ((p >> 1) - 1)) * (2 + (p & 1)) + suffix, or p
\* when p <= 3, and lies in 0 .. 2^L - 1; both prefixes come before either suffix;
\* x and y are swapped exactly for the vertical scan
C27_LastPosition ==
    obs.step = "last" =>
        LET c == LastCoded
            L == tu.log2_trafo_size
        IN  /\ obs.prefix_x = c.px /\ obs.prefix_x <= 2 * L - 1
            /\ obs.prefix_y = c.py /\ obs.prefix_y <= 2 * L - 1
            /\ obs.nbins = c.len
            /\ c.x \in 0 .. 2 ^ L - 1
            /\ c.y \in 0 .. 2 ^ L - 1
            /\ rc.last_significant_coeff_x = (IF tu.scan_idx = SCAN_VERT THEN c.y ELSE c.x)
            /\ rc.last_significant_coeff_y = (IF tu.scan_idx = SCAN_VERT THEN c.x ELSE c.y)

\* a 32x32 block whose prefixes are 9 and 8, each with a suffix of three bins, the
\* first of them all 1 bins and the second not: the position is (31, 16 + suffix)
C27_Witness ==
    /\ obs.step = "last"
    /\ tu.log2_trafo_size = 5
    /\ obs.prefix_x = 9 /\ obs.prefix_y = 8
    /\ obs.nbins = 9 + 9 + 3 + 3
    /\ rc.last_significant_coeff_x = 31
    /\ rc.last_significant_coeff_y = 21

\* an 8x8 block with the vertical scan and different coordinates, one of them with a
\* suffix: they are stored the other way round
C27_WitnessSwap ==
    /\ obs.step = "last"
    /\ tu.scan_idx = SCAN_VERT
    /\ obs.prefix_x = 5 /\ obs.prefix_y = 2
    /\ rc.last_significant_coeff_x = 2
    /\ rc.last_significant_coeff_y = 7


(* ------------------------------------------------------------------ *)
(* The greater1 and greater2 flags of a subblock                        *)
(* ------------------------------------------------------------------ *)
\* some greater1 bin of the subblock is 1
AnyGt1 == \E m \in 1 .. Len(obs.gt1) : obs.gt1[m] = 1

\* C29: in a subblock with n coefficients greater1 bins are decoded for the first
\* min(n, 8) coefficients in scan order; the context index within the set is 1 for
\* the first bin, one more after each greater1 = 0 up to 3, and 0 for every bin after
\* the first greater1 = 1; the context set is (2 for a luma subblock other than
\* subblock 0, else 0) + (1 when the subblock decoded before had a greater1 = 1);
\* prev_subset_coded becomes 1 exactly when some greater1 of this subblock is 1
C29_Gt1Flags ==
    obs.step = "sub" /\ Len(obs.idx) >= 1 =>
        LET n == Len(obs.idx)
            ctx_set == (IF obs.i > 0 /\ tu.c_idx = 0 THEN 2 ELSE 0)
                       + (IF obs.prev = 1 THEN 1 ELSE 0)
            first == 4 * ((IF tu.c_idx > 0 THEN 4 ELSE 0) + ctx_set)
            Seen(m) == \E j \in 1 .. m - 1 : obs.gt1[j] = 1
        IN  /\ Len(obs.gt1) = (IF n < 8 THEN n ELSE 8)
            /\ Len(obs.gt1_inc) = Len(obs.gt1)
            /\ \A m \in 1 .. Len(obs.gt1) :
                  /\ obs.gt1_inc[m] - first =
                        (IF Seen(m) THEN 0 ELSE IF m < 3 THEN m ELSE 3)
                  /\ obs.base[m - 1] >= 2 <=> obs.gt1[m] = 1
            /\ \A m \in 9 .. n : obs.base[m - 1] = 1
            /\ obs.prev \in {0, 1}
            /\ obs.prev = 1 => obs.i < rc.num_last_subset
            /\ rc.prev_subset_coded = (IF AnyGt1 THEN 1 ELSE 0)

\* a subblock without coefficients leaves prev_subset_coded as it was
C29_EmptyKeeps ==
    obs.step = "sub" /\ Len(obs.idx) = 0 => rc.prev_subset_coded = obs.prev

\* a subblock of six coefficients with the greater1 bins 0, 0, 0, 0, 1, 1: the
\* indices 1, 2, 3, 3, 3 and then 0 are used
C29_Witness ==
    /\ obs.step = "sub"
    /\ Len(obs.idx) = 6
    /\ obs.gt1 = << 0, 0, 0, 0, 1, 1 >>
    /\ rc.prev_subset_coded = 1

\* a luma subblock of more than 8 coefficients after one with a greater1 = 1
C29_WitnessPrev ==
    /\ obs.step = "sub"
    /\ Len(obs.idx) > 8
    /\ Len(obs.gt1) = 8
    /\ obs.prev = 1
    /\ tu.c_idx = 0


\* the list position (from 1) of the first greater1 bin that is 1, or 0
FirstGt1 ==
    IF AnyGt1
    THEN CHOOSE m \in 1 .. Len(obs.gt1) :
             obs.gt1[m] = 1 /\ \A j \in 1 .. m - 1 : obs.gt1[j] = 0
    ELSE 0

\* C30: in every subblock with coefficients at most one greater2 bin is decoded, it
\* is decoded if and only if some greater1 is 1, and it belongs to the first
\* coefficient with greater1 = 1; a remainder is decoded for that coefficient when
\* greater2 = 1 (base level 3), for every later coefficient among the first 8 with
\* greater1 = 1 (base level 2), for every coefficient beyond the first 8 (base level
\* 1), and for no other coefficient
C30_Gt2AndRemainders ==
    obs.step = "sub" /\ Len(obs.idx) >= 1 =>
        LET n == Len(obs.idx)
            f == FirstGt1
            gt2 == IF obs.gt2 = << >> THEN 0 ELSE obs.gt2[1]
            with3 == IF gt2 = 1 THEN { f } ELSE {}
            with2 == { m \in f + 1 .. Len(obs.gt1) : f > 0 /\ obs.gt1[m] = 1 }
            with1 == 9 .. n
            ctx_set == (IF obs.i > 0 /\ tu.c_idx = 0 THEN 2 ELSE 0)
                       + (IF obs.prev = 1 THEN 1 ELSE 0)
        IN  /\ Len(obs.gt2) = (IF AnyGt1 THEN 1 ELSE 0)
            /\ obs.gt2_inc =
                  (IF AnyGt1 THEN << (IF tu.c_idx > 0 THEN 4 ELSE 0) + ctx_set >> ELSE << >>)
            /\ f > 0 => obs.base[f - 1] = 2 + gt2
            /\ Len(obs.rems) = Len(obs.which)
            /\ Len(obs.rices) = Len(obs.which)
            /\ \A j \in 1 .. Len(obs.which) - 1 : obs.which[j] < obs.which[j + 1]
            /\ { obs.which[j] + 1 : j \in 1 .. Len(obs.which) } = with3 \cup with2 \cup with1
            /\ \A m \in with3 : obs.base[m - 1] = 3
            /\ \A m \in with2 : obs.base[m - 1] = 2
            /\ \A m \in with1 : obs.base[m - 1] = 1
            /\ \A m \in 1 .. n :
                  obs.abs[m - 1] =
                      obs.base[m - 1]
                      + (IF \E j \in 1 .. Len(obs.which) : obs.which[j] = m - 1
                         THEN obs.rems[CHOOSE j \in 1 .. Len(obs.which) : obs.which[j] = m - 1]
                         ELSE 0)

\* a subblock of more than 8 coefficients with remainders of all three kinds and a
\* coefficient with greater1 = 1 and greater2 = 0 without one
C30_Witness ==
    /\ obs.step = "sub"
    /\ Len(obs.idx) > 8
    /\ obs.gt2 = << 1 >>
    /\ \E m \in FirstGt1 + 1 .. 8 : obs.gt1[m] = 1
    /\ \E m \in 1 .. 8 : obs.gt1[m] = 0

\* the single coefficient of a subblock with greater1 = 1 and greater2 = 0: the
\* greater2 bin is read and no remainder is
C30_WitnessOne ==
    /\ obs.step = "sub"
    /\ Len(obs.idx) = 1
    /\ obs.gt1 = << 1 >> /\ obs.gt2 = << 0 >>
    /\ obs.rems = << >>

\* a first coefficient above 1 with greater2 = 0 and a later one with a remainder
C30_WitnessEq2 ==
    /\ obs.step = "sub"
    /\ obs.gt2 = << 0 >>
    /\ obs.rems # << >>
    /\ obs.which[1] < 8


(* ------------------------------------------------------------------ *)
(* The binarization of a remainder                                      *)
(* ------------------------------------------------------------------ *)
\* the 1 bins in a row from bin q of the stream on, counted up to CABAC_MAX_BIN
RemPrefix == UnaryAt(obs.from, CABAC_MAX_BIN)

\* the number of suffix bins of a remainder of prefix p with parameter k
RemSuffixBins(p, k) == IF p < 3 THEN k ELSE p - 3 + k

\* C28: for every Rice parameter k and every sequence of bins whose unary prefix is
\* below 31, coeff_abs_level_remaining_decode returns (prefix << k) + the next k bins
\* when prefix < 3 and (((1 << (prefix - 3)) + 2) << k) + the next prefix - 3 + k bins
\* otherwise, and consumes prefix + 1 + suffix-length bins;
\* coeff_abs_level_remaining_decode_alt1 returns the same value and consumes the same
\* number of bins; a value of the formula that is no int is not returned
C28_Binarization_Claimed ==
    obs.step = "rem" /\ RemPrefix < CABAC_MAX_BIN =>
        LET p == RemPrefix
            ns == RemSuffixBins(p, obs.k)
            suffix == StreamValue(obs.from + p + 1, ns)
        IN  /\ obs.loop.n = p + 1 + ns
            /\ IF p < 3 THEN obs.loop.val = p * 2 ^ obs.k + suffix
               ELSE IF p - 3 + obs.k > 30 THEN FALSE
               ELSE IF suffix > INT_MAX - (2 ^ (p - 3) + 2) * 2 ^ obs.k THEN FALSE
               ELSE obs.loop.val = (2 ^ (p - 3) + 2) * 2 ^ obs.k + suffix
            /\ obs.peek.val = obs.loop.val
            /\ obs.peek.n = obs.loop.n

\* where the value is an int, the bin-by-bin decoder returns it and consumes
\* prefix + 1 + suffix-length bins
C28_LoopFormula ==
    obs.step = "rem" /\ RemPrefix < CABAC_MAX_BIN /\ ~obs.overflow =>
        LET p == RemPrefix
            ns == RemSuffixBins(p, obs.k)
            suffix == StreamValue(obs.from + p + 1, ns)
        IN  /\ obs.loop.n = p + 1 + ns
            /\ obs.loop.val =
                  (IF p < 3 THEN p * 2 ^ obs.k ELSE (2 ^ (p - 3) + 2) * 2 ^ obs.k) + suffix
            /\ obs.loop.val >= 0

\* up to a prefix of 21 the decoder that peeks 22 bins returns the same value and
\* consumes the same number of bins
C28_PeekAgrees ==
    obs.step = "rem" /\ RemPrefix < PEEK_BITS =>
        /\ ~obs.overflow
        /\ obs.peek.val = obs.loop.val
        /\ obs.peek.n = obs.loop.n

\* a prefix of 29 with parameter 4 and a suffix of 1 bins: the value is not an int
C28_WitnessOverflow ==
    /\ obs.step = "rem"
    /\ RemPrefix = 29 /\ obs.k = 4
    /\ obs.overflow

\* a prefix of 25 with parameter 0: the two decoders return different values
C28_WitnessPeek ==
    /\ obs.step = "rem"
    /\ RemPrefix = 25 /\ obs.k = 0
    /\ ~obs.overflow
    /\ obs.peek.prefix = PEEK_BITS
    /\ obs.peek.val # obs.loop.val


(* ------------------------------------------------------------------ *)
(* The list of significant positions and the buffer                     *)
(* ------------------------------------------------------------------ *)
\* the buffer positions a subblock step stores to
StoredAt(o) == { o.stores[m].t_offset : m \in DOMAIN o.stores }

\* the list of a subblock and its stores: strictly decreasing scan positions in
\* 0 .. 15, not empty in the last subblock and where the group bin was 1, each stored
\* to a position of its own inside the block
ListInFrame ==
    obs.step = "sub" =>
        LET n == Len(obs.idx)
            size == 2 ^ tu.log2_trafo_size
        IN  /\ n <= 16
            /\ \A j \in 1 .. n : obs.idx[j] \in 0 .. 15
            /\ \A j \in 1 .. n - 1 : obs.idx[j] > obs.idx[j + 1]
            /\ obs.i = rc.num_last_subset =>
                  n >= 1 /\ obs.idx[1] = rc.num_coeff - 1 - 16 * obs.i
            /\ obs.group_coded /\ obs.group_flag = 1 => n >= 1
            /\ obs.group_coded /\ obs.group_flag = 0 => n = 0
            /\ DOMAIN obs.stores = 0 .. n - 1
            /\ \A m \in DOMAIN obs.stores :
                  LET o == obs.stores[m].t_offset
                  IN  /\ o \in 0 .. size * size - 1
                      /\ o % size \in 4 * obs.x_cg .. 4 * obs.x_cg + 3
                      /\ o \div size \in 4 * obs.y_cg .. 4 * obs.y_cg + 3
            /\ \A m1, m2 \in DOMAIN obs.stores :
                  m1 # m2 => obs.stores[m1].t_offset # obs.stores[m2].t_offset
            /\ DOMAIN coeffs \subseteq 0 .. size * size - 1

\* a subblock step stores only to positions no earlier step of the block stored to,
\* and the positions that hold a value are those of the stores so far
WrittenOnce ==
    [][obs'.step = "sub" /\ pc = "res_sub" =>
           /\ StoredAt(obs') \cap DOMAIN coeffs = {}
           /\ DOMAIN coeffs' = DOMAIN coeffs \cup StoredAt(obs')]_vars

\* C31: in each visited subblock the recorded significant scan positions are strictly
\* decreasing values in 0 .. 15, at least one of them in the last subblock and in
\* every subblock whose group bin was decoded as 1; across the block each coefficient
\* position is written at most once, and every position not recorded as significant
\* holds 0 when the subblock loop ends
C31_ListAndFrame == [] ListInFrame /\ WrittenOnce

\* the end of the subblock loop of a 16x16 block with four or more visited
\* subblocks, 16 coefficients in subblock 0 and some visited positions left at 0
C31_Witness ==
    /\ obs.step = "sub"
    /\ pc = "res_xform"
    /\ tu.log2_trafo_size = 4
    /\ Len(obs.visited) >= 4
    /\ Len(obs.idx) = 16
    /\ Cardinality(DOMAIN coeffs) > 16
    /\ Cardinality(DOMAIN coeffs) < 16 * Len(obs.visited)


C32_ScanIndexSafe_Small ==
    obs.step = "last" /\ (tu.log2_trafo_size <= 3 \/ tu.scan_idx = SCAN_DIAG) =>
        /\ obs.in_bounds
        /\ rc.num_last_subset < ScanCgLen(tu.scan_idx, 2 ^ tu.log2_trafo_size)
        /\ rc.num_coeff \in 1 .. 4 ^ tu.log2_trafo_size

\* a 16x16 block with the horizontal scan and the last position (15, 15)
C32_WitnessOutside ==
    /\ obs.step = "last"
    /\ tu.log2_trafo_size = 4 /\ tu.scan_idx = SCAN_HORIZ
    /\ rc.last_significant_coeff_x = 15 /\ rc.last_significant_coeff_y = 15
    /\ ~obs.in_bounds


(* ------------------------------------------------------------------ *)
(* The contexts of the residual decoder stay inside their elements      *)
(* ------------------------------------------------------------------ *)
\* the contexts of the bins read by the step just taken, counted from the elem_offset
\* of their syntax element, are inside the element
ResidualCtxInside ==
    /\ obs.step = "last" =>
          /\ obs.ctx_x \cup obs.ctx_y \subseteq (IF tu.c_idx = 0 THEN 0 .. 14 ELSE 15 .. 17)
          /\ obs.prefix_x > 0 => obs.ctx_x # {}
    /\ obs.step = "sub" =>
          /\ \A e \in obs.sig_ctx : e[2] \in 0 .. 43
          /\ \A m \in DOMAIN obs.gt1_inc : obs.gt1_inc[m] \in 0 .. 23
          /\ \A m \in DOMAIN obs.gt2_inc : obs.gt2_inc[m] \in 0 .. 5
          /\ obs.group_coded => obs.group_inc \in 0 .. 3

\* the elements of the residual decoder follow one another in the context table with
\* 18, 18, 4, 44, 24 and 6 contexts
ResidualElemsDisjoint ==
    /\ elem_offset.LAST_SIGNIFICANT_COEFF_X_PREFIX + 18
          = elem_offset.LAST_SIGNIFICANT_COEFF_Y_PREFIX
    /\ elem_offset.LAST_SIGNIFICANT_COEFF_Y_PREFIX + 18
          = elem_offset.SIGNIFICANT_COEFF_GROUP_FLAG
    /\ elem_offset.SIGNIFICANT_COEFF_GROUP_FLAG + 4 = elem_offset.SIGNIFICANT_COEFF_FLAG
    /\ elem_offset.SIGNIFICANT_COEFF_FLAG + 44 = elem_offset.COEFF_ABS_LEVEL_GREATER1_FLAG
    /\ elem_offset.COEFF_ABS_LEVEL_GREATER1_FLAG + 24
          = elem_offset.COEFF_ABS_LEVEL_GREATER2_FLAG
    /\ elem_offset.COEFF_ABS_LEVEL_GREATER2_FLAG + 6 = elem_offset.COEFF_ABS_LEVEL_REMAINING

\* C33: for every block size, channel, scan type, subblock and neighbour pattern each
\* context used stays inside the range of its own syntax element: last position prefix
\* 0 .. 14 for luma and 15 .. 17 for chroma, significant_coeff_flag 0 .. 43, greater1
\* 0 .. 23, greater2 0 .. 5, significant_coeff_group_flag 0 .. 3
C33_ContextsInside ==
    /\ ResidualCtxInside
    /\ ResidualElemsDisjoint
    /\ \A L \in 2 .. 5 : \A c \in 0 .. 2 : \A i \in 0 .. 2 * L - 2 :
          LastCtx(c, L, i) \in (IF c = 0 THEN 0 .. 14 ELSE 15 .. 17)

\* a chroma subblock of a 16x16 block with both neighbours coded that reads its group
\* bin with context 3, significance bins up to context 43 and a greater1 bin with 23
C33_Witness ==
    /\ obs.step = "sub" /\ tu.c_idx > 0
    /\ obs.group_coded /\ obs.group_inc = 3
    /\ \E e \in obs.sig_ctx : e[2] >= 39
    /\ \E m \in DOMAIN obs.gt1_inc : obs.gt1_inc[m] >= 20

\* a 32x32 luma block whose x prefix reaches context 14
C33_WitnessLast ==
    /\ obs.step = "last" /\ tu.c_idx = 0 /\ tu.log2_trafo_size = 5
    /\ 14 \in obs.ctx_x /\ 10 \in obs.ctx_y


(* ------------------------------------------------------------------ *)
(* stat_coeff and the WPP snapshot                                      *)
(* ------------------------------------------------------------------ *)
\* C34: stat_coeff is outside the WPP snapshot: ff_hevc_save_states and load_states
\* copy the context table only, so ff_hevc_cabac_init leaves stat_coeff as the CTB
\* before left it unless it calls cabac_init_state, which zeroes it; a row-start load
\* with ctb_width > 1 does not touch it, and the save after a CTB does not either
C34_StatOutsideSnapshot ==
    [][ /\ (pc = "init" /\ pc' = "inited") =>
              stat_coeff' = (IF \E j \in DOMAIN calls' : calls'[j] = "cabac_init_state"
                             THEN ZeroStat ELSE stat_coeff)
        /\ (pc \in {"inited", "decode"} /\ pc' \in {"header", "init", "done"}) =>
              stat_coeff' = stat_coeff
        /\ (stat_coeff' # stat_coeff /\ stat_coeff' = ZeroStat /\ pc # "decode" /\ pc' # "decode") =>
              \E j \in DOMAIN calls' : calls'[j] = "cabac_init_state" ]_vars

\* a row-start load with ctb_width > 1 after which the table is the snapshot and
\* stat_coeff holds what the row before reached
C34_Witness ==
    /\ Loaded /\ WppOn /\ AtRowStart /\ ctb_width > 1
    /\ \A j \in DOMAIN calls : calls[j] # "cabac_init_state"
    /\ lc_cabac_state = cabac_state
    /\ stat_coeff # ZeroStat


(* ------------------------------------------------------------------ *)
(* The direction of an explicit RDPCM                                   *)
(* ------------------------------------------------------------------ *)
\* explicit_rdpcm_dir_flag is read after the loop only when it was decoded
DirReadDecoded ==
    obs.step = "xform" /\ obs.rdpcm.dir_read => rc.explicit_rdpcm_flag = 1

\* C35: whenever explicit_rdpcm_flag was decoded as 1, transform_rdpcm is called with
\* the decoded explicit_rdpcm_dir_flag as its direction, with transquant bypass as well
\* as with transform skip and whatever implicit_rdpcm_enabled_flag is; and
\* explicit_rdpcm_dir_flag is never read where it was not decoded
C35_ExplicitDir_Claimed ==
    /\ obs.step = "xform" /\ rc.explicit_rdpcm_flag = 1 =>
          /\ obs.rdpcm.called
          /\ obs.rdpcm.mode = rc.explicit_rdpcm_dir_flag
    /\ DirReadDecoded

\* with transform skip, and with transquant bypass when implicit_rdpcm_enabled_flag is
\* 0, the direction is the decoded flag; with transquant bypass and
\* implicit_rdpcm_enabled_flag 1 it is pred_mode_intra == 26
C35_ExplicitDir_Code ==
    /\ obs.step = "xform" /\ rc.explicit_rdpcm_flag = 1 =>
          /\ obs.rdpcm.called
          /\ obs.rdpcm.mode =
                (IF tu.cu_transquant_bypass_flag = 1 /\ tu.implicit_rdpcm_enabled_flag = 1
                 THEN (IF tu.pred_mode_intra = 26 THEN 1 ELSE 0)
                 ELSE rc.explicit_rdpcm_dir_flag)
    /\ DirReadDecoded

\* a transquant-bypass block of an inter unit with both tools on whose decoded
\* direction is 1 and whose transform_rdpcm is called with direction 0
C35_WitnessBypass ==
    /\ obs.step = "xform"
    /\ tu.cu_transquant_bypass_flag = 1 /\ tu.implicit_rdpcm_enabled_flag = 1
    /\ tu.pred_mode = MODE_INTER
    /\ rc.explicit_rdpcm_flag = 1 /\ rc.explicit_rdpcm_dir_flag = 1
    /\ obs.rdpcm.called /\ obs.rdpcm.mode = 0

\* a transform-skip block whose transform_rdpcm is called with the decoded direction 1
C35_WitnessSkip ==
    /\ obs.step = "xform"
    /\ tu.cu_transquant_bypass_flag = 0 /\ rc.trans_skip_or_bypass = 1
    /\ tu.implicit_rdpcm_enabled_flag = 1
    /\ rc.explicit_rdpcm_flag = 1 /\ rc.explicit_rdpcm_dir_flag = 1
    /\ obs.rdpcm.called /\ obs.rdpcm.mode = 1 /\ obs.rdpcm.dir_read


(* ------------------------------------------------------------------ *)
(* The order of the bins of a motion vector difference                  *)
(* ------------------------------------------------------------------ *)
\* C36: ff_hevc_hls_mvd_coding reads greater0(x), greater0(y), greater1(x) only if
\* greater0(x) is 1, greater1(y) only if greater0(y) is 1, then the remainder and sign
\* bins of x, then those of y; every context-coded flag is read before the first bypass
\* bin
C36_MvdBinOrder ==
    obs.step = "mvd" =>
        LET x0 == StreamBin(obs.from)
            y0 == StreamBin(obs.from + 1)
            nflags == 2 + x0 + y0
        IN  /\ obs.g0 = << x0, y0 >>
            /\ obs.flags = << "greater0_x", "greater0_y" >>
                           \o (IF x0 = 1 THEN << "greater1_x" >> ELSE << >>)
                           \o (IF y0 = 1 THEN << "greater1_y" >> ELSE << >>)
            /\ obs.g[1] = (IF x0 = 1 THEN 1 + StreamBin(obs.from + 2) ELSE 0)
            /\ obs.g[2] = (IF y0 = 1 THEN 1 + StreamBin(obs.from + 2 + x0) ELSE 0)
            /\ obs.start[1] = nflags
            /\ obs.start[2] = obs.start[1] + obs.used[1]
            /\ obs.nbins = obs.start[2] + obs.used[2]
            /\ obs.g[1] = 0 => obs.used[1] = 0
            /\ obs.g[2] = 0 => obs.used[2] = 0
            /\ obs.g[1] = 1 => obs.used[1] = 1
            /\ obs.g[2] = 1 => obs.used[2] = 1

\* both components above 1: four flags, then the bypass bins of x before those of y
C36_Witness ==
    /\ obs.step = "mvd"
    /\ obs.g = << 2, 2 >> /\ Len(obs.flags) = 4
    /\ obs.used[1] > 2 /\ obs.used[2] > 2
    /\ obs.start = << 4, 4 + obs.used[1] >>

\* greater0(x) is 0 and greater0(y) is 1: the third bin is greater1(y)
C36_WitnessYOnly ==
    /\ obs.step = "mvd"
    /\ obs.g0 = << 0, 1 >> /\ obs.flags = << "greater0_x", "greater0_y", "greater1_y" >>
    /\ obs.g[2] = 2 /\ obs.start = << 3, 3 >>


(* ------------------------------------------------------------------ *)
(* cu_chroma_qp_offset_idx                                              *)
(* ------------------------------------------------------------------ *)
\* C37: for every chroma_qp_offset_list_len_minus1 in 0 .. 5 and every bin sequence
\* ff_hevc_cu_chroma_qp_offset_idx returns a value in
\* 0 .. chroma_qp_offset_list_len_minus1 and reads at most that many bins
C37_ChromaIdxBound_Claimed ==
    obs.step = "chroma_qp_offset_idx" =>
        /\ obs.val \in 0 .. obs.chroma_qp_offset_list_len_minus1
        /\ obs.nbins <= obs.chroma_qp_offset_list_len_minus1

\* the value is the number of leading 1 bins cut at 5 and the bins read are the value
\* and, below 5, the 0 bin that ends it, whatever the length of the list
C37_ChromaIdxBound_Code ==
    obs.step = "chroma_qp_offset_idx" =>
        /\ obs.val = UnaryAt(obs.from, 5)
        /\ obs.val \in 0 .. 5
        /\ obs.nbins = UnaryLen(obs.val, 5)

\* a list of three entries and five 1 bins: the index returned is 5
C37_WitnessAbove ==
    /\ obs.step = "chroma_qp_offset_idx"
    /\ obs.chroma_qp_offset_list_len_minus1 = 2
    /\ obs.val = 5 /\ obs.nbins = 5


(* ------------------------------------------------------------------ *)
(* v4l2_receive_frame: the packet kept when the input queue is full     *)
(* ------------------------------------------------------------------ *)
\* the packets fetched so far
Fetched == 1 .. io.fetched

\* a packet whose enqueue returned EAGAIN is kept in buf_pkt, and the next call submits
\* the packet of buf_pkt, with the pts it was given when fetched, and fetches none and
\* takes no track number
KeptAndResubmitted ==
    [][ /\ io'.last.enq = "EAGAIN" => m2m'.buf_pkt = io'.last.pkt
        /\ m2m.buf_pkt.size # 0 =>
              /\ io'.last.from_buf /\ io'.last.get = "none"
              /\ io'.last.pkt = m2m.buf_pkt
              /\ io'.last.pkt.pts = track_to_pts(avctx, io.track_of[m2m.buf_pkt.id])
              /\ io'.last.enq # "none"
              /\ io'.fetched = io.fetched
              /\ m2m'.track_no = m2m.track_no ]_vars

\* no packet is submitted twice with success
SentOnce == \A id \in Fetched : io.sent[id] <= 1

\* no fetched packet is dropped: it was submitted with success or buf_pkt holds it
NoneDropped == \A id \in Fetched : io.sent[id] = 1 \/ m2m.buf_pkt.id = id

\* the packet buf_pkt refers to has not been released
HeldNotReleased == m2m.buf_pkt.size # 0 => io.freed[m2m.buf_pkt.id] = 0

\* C38: a packet whose enqueue returned EAGAIN is kept in buf_pkt and is the packet the
\* next call submits, before any new packet is fetched, with the tracking pts it got
\* when fetched and without a second track number; and no fetched packet is dropped,
\* submitted twice with success, or released while buf_pkt refers to it, a failure of
\* v4l2_try_start in the same call included
C38_BackPressure_Claimed ==
    /\ KeptAndResubmitted
    /\ [] (SentOnce /\ NoneDropped /\ HeldNotReleased)

\* what holds: the packet is kept and submitted again, none is submitted twice with
\* success; a packet is dropped only by an enqueue error other than EAGAIN, and the
\* packet of buf_pkt is released only by the call that kept it, when v4l2_try_start
\* fails in it
C38_BackPressure_Code ==
    /\ KeptAndResubmitted
    /\ [] SentOnce
    /\ [] (\A id \in Fetched : io.sent[id] = 1 \/ m2m.buf_pkt.id = id \/ id \in io.leaked)
    /\ [][ (m2m'.buf_pkt.size # 0 /\ io'.freed[m2m'.buf_pkt.id] > 0) =>
              /\ io'.last.enq = "EAGAIN"
              /\ io'.last.start \in { "fail", "ENOMEM" } \/ io.freed[m2m'.buf_pkt.id] > 0 ]_vars

\* the enqueue returned EAGAIN and v4l2_try_start failed: buf_pkt refers to a packet
\* that the call has released
C38_WitnessDangling ==
    /\ io.last.enq = "EAGAIN" /\ io.last.start = "fail" /\ io.last.ret = "ok"
    /\ m2m.buf_pkt.size # 0 /\ m2m.buf_pkt = io.last.pkt
    /\ io.freed[m2m.buf_pkt.id] = 1

\* a packet kept by one call is submitted with success by the next and released once
C38_WitnessKept ==
    /\ io.last.from_buf /\ io.last.enq = "ok" /\ io.last.start = "ok"
    /\ io.sent[io.last.pkt.id] = 1 /\ io.freed[io.last.pkt.id] = 1
    /\ m2m.buf_pkt = NoPkt

(* ------------------------------------------------------------------ *)
(* v4l2_receive_frame: the pts of the frames                            *)
(* ------------------------------------------------------------------ *)
\* every fetched packet has a track number that is not 0, and the call that fetches it
\* writes its slot and submits it with the pts of its track number
TrackedOnFetch ==
    /\ [] (\A id \in Fetched : io.track_of[id] \in 1 .. TrackNoLimit - 1)
    /\ [][ io'.fetched # io.fetched =>
              LET id == io'.fetched
                  no == io'.track_of[id]
                  el == m2m'.track_els[no % FF_V4L2_M2M_TRACK_SIZE]
              IN  /\ id = io.fetched + 1
                  /\ no = m2m'.track_no
                  /\ no = (IF m2m.track_no = TrackNoLimit - 1 THEN 1 ELSE m2m.track_no + 1)
                  /\ el.track_pts = track_to_pts(avctx, no)
                  /\ el.opaque_reorder = PktOpaque(id)
                  /\ el.pts \in { PktPts(id), AV_NOPTS_VALUE }
                  /\ el.pts = AV_NOPTS_VALUE =>
                        io'.last.frame.got /\ io'.last.frame.pts = PktPts(id)
                  /\ io'.last.pkt.pts = el.track_pts ]_vars

\* a frame gets the pts and the reordered_opaque of its slot when its pts is the
\* track_pts of the slot, and no pts otherwise
FramePtsFromSlot ==
    io.calls > 0 /\ io.last.frame.got =>
        LET f == io.last.frame
        IN  /\ f.in_pts >= 0 =>
                  f.n = (pts_to_track(avctx, f.in_pts) % FF_V4L2_M2M_TRACK_SIZE)
            /\ IF f.in_pts # AV_NOPTS_VALUE /\ f.in_pts = f.slot.track_pts
               THEN /\ f.matched
                    /\ f.pts = f.slot.pts
                    /\ f.reordered_opaque = f.slot.opaque_reorder
                    /\ m2m.track_els[f.n].pts = AV_NOPTS_VALUE
               ELSE /\ ~f.matched
                    /\ f.pts = AV_NOPTS_VALUE
                    /\ m2m.track_els[f.n] = f.slot

\* no pts is handed out twice
HandedOnce ==
    \A j, k \in DOMAIN io.handed : j # k => io.handed[j] # io.handed[k]

\* C39: every fetched packet gets a track number that is not 0 and the slot
\* track_els[track_no mod FF_V4L2_M2M_TRACK_SIZE]; a frame gets the original pts and
\* the reordered_opaque of the packet in its slot only if its pts is the track_pts of
\* the slot, and AV_NOPTS_VALUE otherwise; and the original pts of a packet is handed
\* out to one frame at most, a second frame of the same slot getting AV_NOPTS_VALUE
C39_PtsTracking ==
    /\ TrackedOnFetch
    /\ [] (FramePtsFromSlot /\ HandedOnce)

\* a second frame with the pts of a slot whose packet pts has been handed out: it
\* matches the slot and gets AV_NOPTS_VALUE and the reordered_opaque of the packet
C39_Witness ==
    /\ io.last.frame.got /\ io.last.frame.matched
    /\ io.last.frame.pts = AV_NOPTS_VALUE
    /\ io.last.frame.reordered_opaque = PktOpaque(1)
    /\ io.handed = << PktPts(1) >>

\* the track number that follows the last value of track_no is 1
C39_WitnessWrap ==
    /\ io.fetched = 2 /\ io.track_of[1] = TrackNoLimit - 1 /\ io.track_of[2] = 1
    /\ m2m.track_els[1 % FF_V4L2_M2M_TRACK_SIZE].opaque_reorder = PktOpaque(2)

====
